---- MODULE Spec2Model ----
(***************************************************************************)
(* Media preload / cache pipeline of pixelcrate.                           *)
(*                                                                         *)
(*   LRUCache               src/src/hooks/useImagePreloader.ts  29-123     *)
(*   VideoMetadataLRUCache  src/src/lib/videoUtils.ts            4-118     *)
(*   ThrottledPreloadQueue  src/src/hooks/useImagePreloader.ts 162-298     *)
(*                                                                         *)
(* A JavaScript Map is a sequence of [key, value] records in insertion     *)
(* order: Map.delete removes the record, Map.set of a present key keeps    *)
(* its position, Map.set of an absent key appends.                         *)
(***************************************************************************)
EXTENDS Integers, Sequences, FiniteSets

VARIABLES
    imageCache,       \* LRUCache.cache of the imageCache instance
    cacheEvent,       \* what the step just made did to the image cache
    useOrder,         \* cached keys, oldest last set / successful get first
    videoCache,       \* VideoMetadataLRUCache.cache of videoMetadataCache
    videoEvent,       \* what the step just made did to the video cache
    queue,            \* ThrottledPreloadQueue.queue
    loading,          \* ThrottledPreloadQueue.loading
    sinceProcess,     \* Date.now() - lastProcessTime, capped at throttleDelay
    timers,           \* remaining ms of each pending setTimeout(processQueue)
    decoding,         \* unsettled decodes the queue started, per url
    scrollDirection,  \* module variable scrollDirection
    lastScrollY,      \* module variable lastScrollY
    scrollTimeout,    \* remaining ms of the idle timer, NoTimer when none
    enqueued,         \* pending urls' latest add call, in call order
    queueEvent,       \* what the step just made did to the queue
    dispatched,       \* urls whose decode the queue started, in that order
                      \* (kept by the specifications that follow a scenario)
    service,          \* the fields of the imageDecoderService instance
    orphans,          \* a Worker the service dropped unterminated is alive
    calls,            \* decodeImage calls whose caller has not gone on yet
    atWorker,         \* requests posted to a worker and not answered
    requestTimers,    \* remaining ms of the timer of each posted request
    decoderEvent,     \* what the step just made did to the decoder service
    supportsCreateImageBitmap,  \* the constant of the worker script, line 27
    electron,         \* window.electron is defined
    bitmaps,          \* ImageBitmaps transferred to the main context
    workerEvent,      \* what the worker script did in the step just made
    hook,             \* state and refs of the component that uses the hook
    promises,         \* the promise of the latest preloadImage call, per url
    hookEvent,        \* what the step just made called of the hook
    videoFramesCache, \* VideoMetadataLRUCache.cache of videoFramesCache
    videoLoads,       \* the getVideoDimensions calls that wait for their video
    batcher,          \* the fields of the patternOverlayBatcher instance
    batchLog,         \* the queueOperation calls since the last batch
    batcherEvent,     \* what the step just made did with the batcher
    tags,             \* the parentId of each tag in the state of useTagStore
    folders,          \* the parentId of each folder in useFolderStore
    moves,            \* moveTag and moveFolder calls that await the storage
    storeEvent,       \* what the step just made did with the stores
    images,           \* the images argument of the hook at its latest render
    criticalTimer     \* the timer of preloadCriticalImages is pending

cacheVars == <<imageCache, useOrder>>
videoVars == <<videoCache, videoFramesCache, videoLoads>>
scrollVars == <<scrollDirection, lastScrollY, scrollTimeout>>
queueVars == <<queue, loading, sinceProcess, timers, decoding, enqueued>>
vars == <<imageCache, cacheEvent, useOrder, videoCache, videoEvent, queue,
          loading, sinceProcess, timers, decoding, scrollDirection,
          lastScrollY, scrollTimeout, enqueued, queueEvent, dispatched,
          service, orphans, calls, atWorker, requestTimers, decoderEvent,
          supportsCreateImageBitmap, electron, bitmaps, workerEvent,
          hook, promises, hookEvent, videoFramesCache, videoLoads,
          batcher, batchLog, batcherEvent, tags, folders, moves,
          storeEvent, images, criticalTimer>>

----------------------------------------------------------------------------
(* Bounds and configuration of the modelled instances.                     *)

\* resource keys offered to the caches
Keys == {1, 2, 3, 4}

\* the resource keys (urls) the preload queue is asked for
Urls == {1, 2}

\* the poster url of a video, the empty string as a key, a data: url
PosterUrl == 3
EmptyUrl == 4
DataUrl == 5

\* the three resources of the priority scenario and the priority each one is
\* enqueued with
ScenarioUrls == {1, 2, 3}
ScenarioPriority == <<10, 50, 30>>

\* count ceiling the imageCache instance is constructed with (200 in the
\* source, scaled for the model)
IMAGE_CACHE_MAX_SIZE == 2

\* constructor arguments of the modelled VideoMetadataLRUCache instance
\* (200 / 150 MB and 100 / 50 MB in the source, scaled for the model)
VIDEO_METADATA_CACHE_SIZE == 2
VIDEO_METADATA_MEMORY_LIMIT_MB == 1

BytesPerMB == 1024 * 1024

None == 0

----------------------------------------------------------------------------
(* JavaScript Map primitives.                                              *)

MapKeys(m) == { m[i].key : i \in DOMAIN m }

MapHas(m, k) == k \in MapKeys(m)

MapIndex(m, k) == CHOOSE i \in DOMAIN m : m[i].key = k

MapGet(m, k) == m[MapIndex(m, k)].value

MapDelete(m, k) == SelectSeq(m, LAMBDA e : e.key # k)

MapSet(m, k, v) ==
    IF MapHas(m, k)
    THEN [m EXCEPT ![MapIndex(m, k)] = [key |-> k, value |-> v]]
    ELSE Append(m, [key |-> k, value |-> v])

MapKeySeq(m) == [i \in DOMAIN m |-> m[i].key]

RemoveAt(seq, i) == SubSeq(seq, 1, i - 1) \o SubSeq(seq, i + 1, Len(seq))

----------------------------------------------------------------------------
(* class LRUCache<K, V>  (useImagePreloader.ts 29-123)                      *)
(*                                                                         *)
(* Every value the imageCache instance holds is an HTMLImageElement made   *)
(* for one decode; two set calls never pass the same element.  Releasing   *)
(* an element is the assignment src = '' , srcset = '' .  Each operator    *)
(* returns the new Map together with what the call did to the values it    *)
(* took out of the Map: left (key and reason), released (keys whose value  *)
(* was released, in order, one item per release performed).                *)

Image(k) == [kind |-> "HTMLImageElement", src |-> k]

IsImage(v) == v.kind = "HTMLImageElement"

Cleanup(m, k) == IF IsImage(MapGet(m, k)) THEN <<k>> ELSE <<>>

\* a get that leaves the entry where it is in the Map
LRUGetInPlace(m, k) ==
    [cache |-> m, hit |-> MapHas(m, k), left |-> {}, released |-> <<>>]

\* LRUCache.get, lines 37-45
LRUGet(m, k) ==
    IF MapHas(m, k)
    THEN [cache |-> MapSet(MapDelete(m, k), k, MapGet(m, k)), hit |-> TRUE,
          left |-> {}, released |-> <<>>]
    ELSE [cache |-> m, hit |-> FALSE, left |-> {}, released |-> <<>>]

\* an eviction that drops the first entry without the cleanup of lines 56-62
LRUEvictNoCleanup(m) ==
    [cache |-> Tail(m), hit |-> FALSE,
     left |-> {[key |-> m[1].key, how |-> "evicted"]}, released |-> <<>>]

\* the eviction branch of LRUCache.set, lines 51-64
LRUEvict(m) ==
    IF Len(m) > 0
    THEN [cache |-> MapDelete(m, m[1].key), hit |-> FALSE,
          left |-> {[key |-> m[1].key, how |-> "evicted"]},
          released |-> Cleanup(m, m[1].key)]
    ELSE [cache |-> m, hit |-> FALSE, left |-> {}, released |-> <<>>]

\* the update branch of LRUCache.set, lines 48-50
LRUReplace(m, k) ==
    [cache |-> MapDelete(m, k), hit |-> TRUE,
     left |-> {[key |-> k, how |-> "replaced"]}, released |-> <<>>]

\* a test that lets the Map grow one entry past maxSize
LRUFullOnePast(m, maxSize) == Len(m) > maxSize

\* the test that guards the eviction branch, line 51
LRUFull(m, maxSize) == Len(m) >= maxSize

\* LRUCache.set, lines 47-66
LRUSet(m, maxSize, k, v) ==
    LET r == IF MapHas(m, k) THEN LRUReplace(m, k)
             ELSE IF LRUFull(m, maxSize) THEN LRUEvict(m)
             ELSE [cache |-> m, hit |-> FALSE, left |-> {}, released |-> <<>>]
    IN  [r EXCEPT !.cache = MapSet(r.cache, k, v)]

\* LRUCache.delete, lines 72-80
LRUDelete(m, k) ==
    IF MapHas(m, k)
    THEN [cache |-> MapDelete(m, k), hit |-> TRUE,
          left |-> {[key |-> k, how |-> "deleted"]},
          released |-> Cleanup(m, k)]
    ELSE [cache |-> m, hit |-> FALSE, left |-> {}, released |-> <<>>]

RECURSIVE CleanupAll(_, _)
CleanupAll(m, i) ==
    IF i > Len(m) THEN <<>>
    ELSE Cleanup(m, m[i].key) \o CleanupAll(m, i + 1)

\* LRUCache.clear, lines 82-91
LRUClear(m) ==
    [cache |-> <<>>, hit |-> FALSE,
     left |-> { [key |-> m[i].key, how |-> "cleared"] : i \in DOMAIN m },
     released |-> CleanupAll(m, 1)]

\* the observation of one call: size is the entry count the call found and
\* lru the key that was least recently used when the call was made
Event(op, k, before, order, r) ==
    [op |-> op, key |-> k, hit |-> r.hit,
     lru |-> IF Len(order) > 0 THEN order[1] ELSE None,
     size |-> Len(before),
     left |-> r.left, released |-> r.released]

NoEvent == [op |-> "none", key |-> None, hit |-> FALSE, lru |-> None,
            size |-> 0, left |-> {}, released |-> <<>>]

\* The recency order the contract speaks of, kept apart from the Map: a set
\* or a successful get makes the key the most recently used one, and a key
\* that is no longer cached is forgotten.
Touch(order, k) == SelectSeq(order, LAMBDA x : x # k) \o <<k>>

Forget(order, m) == SelectSeq(order, LAMBDA x : MapHas(m, x))

Used(op, k, r) == op = "set" \/ (op = "get" /\ r.hit)

\* an item of ThrottledPreloadQueue.queue, line 163
Item(url, priority, distance) ==
    [url |-> url, priority |-> priority, distance |-> distance]

NoItem == Item(None, 0, 0)

\* what a promise of videoUtils.ts is settled with when it is not settled
NoValue == [width |-> 0, height |-> 0, duration |-> 0, posterData |-> FALSE,
            posterLen |-> 0, jsonLen |-> 0]

NoMedia == [kind |-> "none", width |-> 0, duration |-> 0]

\* update, forSize, forMemory: what a set did; settled, value, media: how a
\* promise was settled in the step and for which resource; raised: the call
\* ended by an exception
NoVideoEvent == [op |-> "none", key |-> None, update |-> FALSE,
                 forSize |-> 0, forMemory |-> 0,
                 settled |-> "none", value |-> NoValue, media |-> NoMedia,
                 raised |-> FALSE]

NoQueueEvent == [op |-> "none", key |-> None, item |-> NoItem,
                 replaced |-> NoItem,
                 started |-> FALSE]

\* a step that makes no call on the image cache, the video cache, the queue
NoCacheCall == cacheEvent' = NoEvent /\ UNCHANGED cacheVars

NoVideoCall == videoEvent' = NoVideoEvent

NoQueueCall == queueEvent' = NoQueueEvent

\* one call on the imageCache instance
ImageCacheCall(op, k, r) ==
    /\ imageCache' = r.cache
    /\ cacheEvent' = Event(op, k, imageCache, useOrder, r)
    /\ useOrder' = Forget(IF Used(op, k, r) THEN Touch(useOrder, k)
                          ELSE useOrder, r.cache)

ImageCacheGet(k) ==
    /\ ImageCacheCall("get", k, LRUGet(imageCache, k))
    /\ NoVideoCall /\ NoQueueCall
    /\ UNCHANGED <<videoVars, queueVars, scrollVars>>

ImageCacheSet(k) ==
    /\ ImageCacheCall("set", k,
                      LRUSet(imageCache, IMAGE_CACHE_MAX_SIZE, k, Image(k)))
    /\ NoVideoCall /\ NoQueueCall
    /\ UNCHANGED <<videoVars, queueVars, scrollVars>>

ImageCacheDelete(k) ==
    /\ ImageCacheCall("delete", k, LRUDelete(imageCache, k))
    /\ NoVideoCall /\ NoQueueCall
    /\ UNCHANGED <<videoVars, queueVars, scrollVars>>

ImageCacheClear ==
    /\ ImageCacheCall("clear", None, LRUClear(imageCache))
    /\ NoVideoCall /\ NoQueueCall
    /\ UNCHANGED <<videoVars, queueVars, scrollVars>>

----------------------------------------------------------------------------
(* class VideoMetadataLRUCache<K, V>  (videoUtils.ts 4-118)                 *)
(*                                                                         *)
(* A value is a metadata record; its estimated cost is decided by the      *)
(* length of the poster data URL and the size of the JSON text of width,   *)
(* height and duration.  Sizes are kept in bytes: getMemoryUsage() >       *)
(* maxMemoryMB is totalSize > maxMemoryMB * 1024 * 1024.                   *)

\* new Blob([String(key)]).size of a model key
KeyBytes(k) == 16

\* lines 85-101: the estimate of one value
ValueBytes(v) ==
    (IF v.posterLen > 0
     THEN (IF v.posterData THEN v.posterLen ELSE 1024)
     ELSE 0) + v.jsonLen

RECURSIVE TotalSize(_, _)
TotalSize(m, i) ==
    IF i > Len(m) THEN 0
    ELSE KeyBytes(m[i].key) + ValueBytes(m[i].value) + TotalSize(m, i + 1)

\* VideoMetadataLRUCache.getMemoryUsage, lines 78-107, in bytes
getMemoryUsage(m) == TotalSize(m, 1)

OverMemory(m, maxMemoryMB) == getMemoryUsage(m) > maxMemoryMB * BytesPerMB

\* lines 54-61: the count loop of evictIfNeeded
RECURSIVE EvictForSize(_, _)
EvictForSize(m, maxSize) ==
    IF Len(m) >= maxSize /\ Len(m) > 0
    THEN EvictForSize(Tail(m), maxSize)
    ELSE m

\* Math.ceil(size * 0.2), line 67 (exact for the sizes of the model)
EntriesToEvict(size) == (size + 4) \div 5

\* lines 68-73: the loop of the memory pass
RECURSIVE EvictOldest(_, _)
EvictOldest(m, n) ==
    IF n > 0 /\ Len(m) > 0 THEN EvictOldest(Tail(m), n - 1) ELSE m

\* the memory pass with one entry evicted however many there are
evictIfNeededOneEntry(m, maxSize, maxMemoryMB) ==
    LET m1 == EvictForSize(m, maxSize)
        m2 == IF OverMemory(m1, maxMemoryMB) THEN EvictOldest(m1, 1) ELSE m1
    IN  [cache |-> m2,
         forSize |-> Len(m) - Len(m1),
         forMemory |-> Len(m1) - Len(m2)]

\* VideoMetadataLRUCache.evictIfNeeded, lines 52-75
evictIfNeeded(m, maxSize, maxMemoryMB) ==
    LET m1 == EvictForSize(m, maxSize)
        m2 == IF OverMemory(m1, maxMemoryMB)
              THEN EvictOldest(m1, EntriesToEvict(Len(m1)))
              ELSE m1
    IN  [cache |-> m2,
         forSize |-> Len(m) - Len(m1),
         forMemory |-> Len(m1) - Len(m2)]

\* VideoMetadataLRUCache.set, lines 24-33
VideoSetResult(m, maxSize, maxMemoryMB, k, v) ==
    LET r == IF MapHas(m, k)
             THEN [cache |-> MapDelete(m, k), forSize |-> 0, forMemory |-> 0]
             ELSE evictIfNeeded(m, maxSize, maxMemoryMB)
    IN  [r EXCEPT !.cache = MapSet(r.cache, k, v)]

\* VideoMetadataLRUCache.get, lines 14-22
VideoGetResult(m, k) ==
    IF MapHas(m, k) THEN MapSet(MapDelete(m, k), k, MapGet(m, k)) ELSE m

\* the metadata records offered to set: a JPEG poster as a data URL
PosterLens == {600000, 1200000}

VideoValues ==
    { [posterData |-> TRUE, posterLen |-> n, jsonLen |-> 39] : n \in PosterLens }

VideoCacheSet(k, v) ==
    LET r == VideoSetResult(videoCache, VIDEO_METADATA_CACHE_SIZE,
                            VIDEO_METADATA_MEMORY_LIMIT_MB, k, v)
    IN  /\ videoCache' = r.cache
        /\ videoEvent' = [NoVideoEvent EXCEPT !.op = "set", !.key = k,
                              !.update = MapHas(videoCache, k),
                              !.forSize = r.forSize,
                              !.forMemory = r.forMemory]
        /\ NoCacheCall /\ NoQueueCall
        /\ UNCHANGED <<videoFramesCache, videoLoads, queueVars, scrollVars>>

VideoCacheGet(k) ==
    /\ videoCache' = VideoGetResult(videoCache, k)
    /\ videoEvent' = [NoVideoEvent EXCEPT !.op = "get", !.key = k]
    /\ NoCacheCall /\ NoQueueCall
    /\ UNCHANGED <<videoFramesCache, videoLoads, queueVars, scrollVars>>

\* VideoMetadataLRUCache.delete, lines 39-41
VideoCacheDelete(k) ==
    /\ videoCache' = MapDelete(videoCache, k)
    /\ videoEvent' = [NoVideoEvent EXCEPT !.op = "delete", !.key = k]
    /\ NoCacheCall /\ NoQueueCall
    /\ UNCHANGED <<videoFramesCache, videoLoads, queueVars, scrollVars>>

\* VideoMetadataLRUCache.clear, lines 43-45
VideoCacheClear ==
    /\ videoCache' = <<>>
    /\ videoEvent' = [NoVideoEvent EXCEPT !.op = "clear"]
    /\ NoCacheCall /\ NoQueueCall
    /\ UNCHANGED <<videoFramesCache, videoLoads, queueVars, scrollVars>>

\* A second instance of the class with room for more entries, to follow the
\* memory pass on caches of several entries: maxSize EvictionCacheSize, the
\* memory limit of videoMetadataCache, posters of a few hundred kB
EvictionCacheSize == 8

EvictionKeys == 1..(EvictionCacheSize + 1)

SmallVideoValues ==
    { [posterData |-> TRUE, posterLen |-> n, jsonLen |-> 39] :
          n \in {150000, 250000} }

\* the key after k in the round of EvictionKeys
NextKey(k) == (k % (EvictionCacheSize + 1)) + 1

\* set of that instance with a key it does not hold, lines 24-33: the keys
\* come in the round of EvictionKeys, so the key after the newest one is not
\* in the cache
VideoCacheSetNew(v) ==
    LET k == IF videoCache = <<>> THEN 1
             ELSE NextKey(videoCache[Len(videoCache)].key)
        r == VideoSetResult(videoCache, EvictionCacheSize,
                            VIDEO_METADATA_MEMORY_LIMIT_MB, k, v)
    IN  /\ ~MapHas(videoCache, k)
        /\ videoCache' = r.cache
        /\ videoEvent' = [NoVideoEvent EXCEPT !.op = "set", !.key = k,
                              !.update = MapHas(videoCache, k),
                              !.forSize = r.forSize,
                              !.forMemory = r.forMemory]
        /\ NoCacheCall /\ NoQueueCall
        /\ UNCHANGED <<videoFramesCache, videoLoads, queueVars, scrollVars>>

----------------------------------------------------------------------------
(* getVideoDimensions  (videoUtils.ts 134-247)                              *)
(*                                                                         *)
(* A call that finds no cached record creates a video element and waits    *)
(* for its events; videoLoads holds these calls with the resource each     *)
(* one loads.                                                              *)

\* the sources getVideoDimensions is called with, None being the empty string
VideoSrcs == {1, 2}

\* the calls that may wait for their video at the same time
MaxVideoLoads == 2

\* what a source turns out to be: a video with its videoWidth (videoHeight
\* goes with it) and duration, a source the element reports
\* MEDIA_ERR_SRC_NOT_SUPPORTED for (code 4), or one it reports another error
\* for
Medias ==
    [kind : {"video"}, width : {0, 1920}, duration : {0, 10}] \cup
    [kind : {"unsupported", "broken"}, width : {0}, duration : {0}]

\* the result of lines 187-192
DefaultDimensions ==
    [width |-> 640, height |-> 360, duration |-> 0, posterData |-> FALSE,
     posterLen |-> 0, jsonLen |-> 39]

\* the result of lines 217-222: the JPEG data URL of a canvas of the size of
\* the video, or of 640x360 when the video reports no size
PosterOf(media) ==
    [width |-> IF media.width = 0 THEN 640 ELSE media.width,
     height |-> IF media.width = 0 THEN 360 ELSE (media.width * 9) \div 16,
     duration |-> media.duration,
     posterData |-> TRUE,
     posterLen |-> IF media.width = 0 THEN 600000 ELSE 1600000,
     jsonLen |-> 39]

VideoLoad(src, media) == [src |-> src, media |-> media, stage |-> "loading"]

VideoSettled(op, call, how, value) ==
    [NoVideoEvent EXCEPT !.op = op, !.key = call.src, !.settled = how,
                         !.value = value, !.media = call.media]

\* the step just made is one of videoUtils.ts alone
OnlyVideo ==
    /\ NoCacheCall /\ NoQueueCall
    /\ UNCHANGED <<queueVars, scrollVars>>

\* the executor of getVideoDimensions, lines 140-246, for a source that is
\* media
getVideoDimensions(videoSrc, media) ==
    /\ IF videoSrc = None
       THEN /\ videoEvent' =
                   [NoVideoEvent EXCEPT !.op = "getVideoDimensions",
                                        !.settled = "rejected"]
            /\ UNCHANGED <<videoCache, videoLoads>>
       ELSE IF MapHas(videoCache, videoSrc)
       THEN /\ videoCache' = VideoGetResult(videoCache, videoSrc)
            /\ videoEvent' =
                   [NoVideoEvent EXCEPT !.op = "getVideoDimensions",
                                        !.key = videoSrc,
                                        !.settled = "resolved",
                                        !.value = MapGet(videoCache, videoSrc)]
            /\ UNCHANGED videoLoads
       ELSE /\ Len(videoLoads) < MaxVideoLoads
            /\ videoLoads' = Append(videoLoads, VideoLoad(videoSrc, media))
            /\ videoEvent' =
                   [NoVideoEvent EXCEPT !.op = "getVideoDimensions",
                                        !.key = videoSrc, !.media = media]
            /\ UNCHANGED videoCache
    /\ UNCHANGED videoFramesCache
    /\ OnlyVideo

\* generatePoster of call i, lines 199-241, with the 2d context of the canvas
\* there or not
generatePoster(op, i, ctx) ==
    LET call == videoLoads[i]
        result == PosterOf(call.media)
        r == VideoSetResult(videoCache, VIDEO_METADATA_CACHE_SIZE,
                            VIDEO_METADATA_MEMORY_LIMIT_MB, call.src, result)
    IN  /\ IF ctx
           THEN /\ videoCache' = r.cache
                /\ videoEvent' =
                       [VideoSettled(op, call, "resolved", result)
                           EXCEPT !.update = MapHas(videoCache, call.src),
                                  !.forSize = r.forSize,
                                  !.forMemory = r.forMemory]
           ELSE /\ videoEvent' = VideoSettled(op, call, "rejected", NoValue)
                /\ UNCHANGED videoCache
        /\ videoLoads' = RemoveAt(videoLoads, i)

\* video.onloadedmetadata of call i, lines 160-176: the seek to 0 starts, or
\* throws and the poster is generated at once
onloadedmetadata(i, seekThrows, ctx) ==
    /\ i \in DOMAIN videoLoads
    /\ videoLoads[i].stage = "loading"
    /\ videoLoads[i].media.kind = "video"
    /\ IF seekThrows
       THEN generatePoster("onloadedmetadata", i, ctx)
       ELSE /\ videoLoads' = [videoLoads EXCEPT ![i].stage = "seeking"]
            /\ videoEvent' = [NoVideoEvent EXCEPT !.op = "onloadedmetadata",
                                                  !.key = videoLoads[i].src]
            /\ UNCHANGED videoCache
    /\ UNCHANGED videoFramesCache
    /\ OnlyVideo

\* video.onseeked of call i, line 178
onseeked(i, ctx) ==
    /\ i \in DOMAIN videoLoads
    /\ videoLoads[i].stage = "seeking"
    /\ generatePoster("onseeked", i, ctx)
    /\ UNCHANGED videoFramesCache
    /\ OnlyVideo

\* an error handler that also caches the defaults it resolves with
onerrorCachesDefaults(i) ==
    /\ i \in DOMAIN videoLoads
    /\ videoLoads[i].stage = "loading"
    /\ videoLoads[i].media.kind # "video"
    /\ videoEvent' =
           IF videoLoads[i].media.kind = "unsupported"
           THEN VideoSettled("onerror", videoLoads[i], "resolved",
                             DefaultDimensions)
           ELSE VideoSettled("onerror", videoLoads[i], "rejected", NoValue)
    /\ videoCache' =
           IF videoLoads[i].media.kind = "unsupported"
           THEN VideoSetResult(videoCache, VIDEO_METADATA_CACHE_SIZE,
                               VIDEO_METADATA_MEMORY_LIMIT_MB,
                               videoLoads[i].src, DefaultDimensions).cache
           ELSE videoCache
    /\ videoLoads' = RemoveAt(videoLoads, i)
    /\ UNCHANGED videoFramesCache
    /\ OnlyVideo

\* video.onerror of call i, lines 181-197
onerror(i) ==
    /\ i \in DOMAIN videoLoads
    /\ videoLoads[i].stage = "loading"
    /\ videoLoads[i].media.kind # "video"
    /\ videoEvent' =
           IF videoLoads[i].media.kind = "unsupported"
           THEN VideoSettled("onerror", videoLoads[i], "resolved",
                             DefaultDimensions)
           ELSE VideoSettled("onerror", videoLoads[i], "rejected", NoValue)
    /\ videoLoads' = RemoveAt(videoLoads, i)
    /\ UNCHANGED <<videoCache, videoFramesCache>>
    /\ OnlyVideo

----------------------------------------------------------------------------
(* videoFramesCache and videoCacheManager  (videoUtils.ts 131, 354-447)     *)

\* the constructor arguments of videoFramesCache, line 131 (100 and 50 in
\* the source, scaled)
VIDEO_FRAMES_CACHE_SIZE == 2
VIDEO_FRAMES_MEMORY_LIMIT_MB == 1

\* maxTotalMemoryMB of performMemoryCleanup, line 401 (300 in the source,
\* scaled with the limit of the metadata cache)
maxTotalMemoryMB == 2

\* a value of videoFramesCache: an array of data URLs, for which lines 85-101
\* count the JSON text of an object without width, height and duration
Frames == [posterData |-> FALSE, posterLen |-> 0, jsonLen |-> 2]

\* cleanupAndResolve of captureVideoFrames, lines 340-350, for the frames of
\* videoSrc at the default percentages
cleanupAndResolve(videoSrc) ==
    LET r == VideoSetResult(videoFramesCache, VIDEO_FRAMES_CACHE_SIZE,
                            VIDEO_FRAMES_MEMORY_LIMIT_MB, videoSrc, Frames)
    IN  /\ videoFramesCache' = r.cache
        /\ videoEvent' = [NoVideoEvent EXCEPT !.op = "cleanupAndResolve",
                                              !.key = videoSrc,
                                              !.settled = "resolved"]
        /\ UNCHANGED <<videoCache, videoLoads>>
        /\ OnlyVideo

\* getStats().totalMemoryUsage, lines 384-395, in bytes
totalMemoryUsage(metadata, frames) ==
    getMemoryUsage(metadata) + getMemoryUsage(frames)

\* videoCacheManager.performMemoryCleanup, lines 398-424.  The class has no
\* method entries: the call of line 417 raises a TypeError.
performMemoryCleanup(metadata, frames) ==
    IF totalMemoryUsage(metadata, frames) > maxTotalMemoryMB * BytesPerMB
    THEN LET cleared ==
                 IF getMemoryUsage(frames) * 10 >
                        VIDEO_FRAMES_MEMORY_LIMIT_MB * BytesPerMB * 7
                 THEN <<>> ELSE frames
         IN  [metadata |-> metadata, frames |-> cleared,
              raised |-> totalMemoryUsage(metadata, cleared) * 10 >
                             maxTotalMemoryMB * BytesPerMB * 8]
    ELSE [metadata |-> metadata, frames |-> frames, raised |-> FALSE]

\* the callback of the interval of lines 450-455
PerformMemoryCleanup ==
    LET r == performMemoryCleanup(videoCache, videoFramesCache)
    IN  /\ videoCache' = r.metadata
        /\ videoFramesCache' = r.frames
        /\ videoEvent' = [NoVideoEvent EXCEPT !.op = "performMemoryCleanup",
                                              !.raised = r.raised]
        /\ UNCHANGED videoLoads
        /\ OnlyVideo

\* videoCacheManager.removeVideo, lines 438-447.  The class has no method
\* entries: the call of line 442 raises a TypeError after the delete of line
\* 439, whatever the frame cache holds.
removeVideo(videoSrc) ==
    /\ videoCache' = MapDelete(videoCache, videoSrc)
    /\ videoEvent' = [NoVideoEvent EXCEPT !.op = "removeVideo",
                                          !.key = videoSrc,
                                          !.raised = TRUE]
    /\ UNCHANGED <<videoFramesCache, videoLoads>>
    /\ OnlyVideo

----------------------------------------------------------------------------
(* Time.  One Tick is TickMs milliseconds; a setTimeout callback may run   *)
(* any time after its delay has run out.                                   *)

\* ThrottledPreloadQueue.throttleDelay, line 166
throttleDelay == 100

\* the delay of the setTimeout in the finally block of processQueue, line 229
cooldownDelay == 50

\* the delay of the idle timer of updateScrollDirection, line 153
scrollIdleDelay == 150

TickMs == cooldownDelay

NoTimer == -1

Elapse(t) == IF t > TickMs THEN t - TickMs ELSE 0

Later(t) == IF t + TickMs < throttleDelay THEN t + TickMs ELSE throttleDelay

\* the pending timers, kept as a sequence of remaining delays in ascending order
RECURSIVE AddTimer(_, _)
AddTimer(ts, t) ==
    IF ts = <<>> THEN <<t>>
    ELSE IF t <= Head(ts) THEN <<t>> \o ts
    ELSE <<Head(ts)>> \o AddTimer(Tail(ts), t)

----------------------------------------------------------------------------
(* Scroll direction tracking  (useImagePreloader.ts 134-159)               *)

\* the offsets window.scrollY takes
ScrollYs == {0, 1}

\* where the element of each url lies: the offset of its centre from the
\* centre of the viewport, negative above it and positive below it
ElementOffset == <<-100, 100>>

\* calculateViewportDistance of the hook, lines 361-368
calculateViewportDistance(offset) == IF offset < 0 THEN -offset ELSE offset

\* updateScrollDirection, lines 140-154
updateScrollDirection(currentScrollY) ==
    /\ scrollDirection' =
           IF currentScrollY > lastScrollY THEN "down"
           ELSE IF currentScrollY < lastScrollY THEN "up"
           ELSE scrollDirection
    /\ lastScrollY' = currentScrollY
    /\ scrollTimeout' = scrollIdleDelay
    /\ NoCacheCall /\ NoVideoCall /\ NoQueueCall
    /\ UNCHANGED <<videoVars, queueVars>>

\* the idle callback run while its timer still has time left
ScrollIdleEarly ==
    /\ scrollTimeout # NoTimer
    /\ scrollDirection' = "idle"
    /\ scrollTimeout' = NoTimer
    /\ NoCacheCall /\ NoVideoCall /\ NoQueueCall
    /\ UNCHANGED <<lastScrollY, videoVars, queueVars>>

\* the callback of the idle timer, lines 151-153
ScrollIdle ==
    /\ scrollTimeout = 0
    /\ scrollDirection' = "idle"
    /\ scrollTimeout' = NoTimer
    /\ NoCacheCall /\ NoVideoCall /\ NoQueueCall
    /\ UNCHANGED <<lastScrollY, videoVars, queueVars>>

----------------------------------------------------------------------------
(* class ThrottledPreloadQueue  (useImagePreloader.ts 162-298)             *)

\* ThrottledPreloadQueue.maxConcurrent, line 165 (4 in the source, scaled)
maxConcurrent == 1

\* the priorities and viewport distances add is called with
Priorities == {10, 50}
Distances == {0, 100}

\* setTimeout(processQueue) callbacks pending at the same time
MaxTimers == 3

\* decodes still unsettled when clearCache is called
MaxStaleDecodes == 1

\* the comparator of sortQueue, lines 183-202
Compare(a, b, direction) ==
    LET priorityDiff == b.priority - a.priority
        distanceDiff == a.distance - b.distance
    IN  IF priorityDiff # 0 THEN priorityDiff
        ELSE IF distanceDiff # 0 THEN distanceDiff
        ELSE IF direction = "down" THEN a.distance - b.distance
        ELSE IF direction = "up" THEN b.distance - a.distance
        ELSE 0

\* Array.prototype.sort is stable: an element goes behind every element that
\* does not compare greater than it
RECURSIVE InsertSorted(_, _, _)
InsertSorted(sorted, x, direction) ==
    IF sorted = <<>> THEN <<x>>
    ELSE IF Compare(Head(sorted), x, direction) <= 0
         THEN <<Head(sorted)>> \o InsertSorted(Tail(sorted), x, direction)
         ELSE <<x>> \o sorted

RECURSIVE StableSort(_, _, _)
StableSort(seq, i, direction) ==
    IF i = 0 THEN <<>>
    ELSE InsertSorted(StableSort(seq, i - 1, direction), seq[i], direction)

\* a sortQueue that leaves the queue in the order of the add calls
sortQueueSkipped(q, direction) == q

\* ThrottledPreloadQueue.sortQueue, lines 182-203
sortQueue(q, direction) == StableSort(q, Len(q), direction)

\* an add that pushes the new item without the filter of line 173
RequeueKeepBoth(q, item) == Append(q, item)

\* lines 173-176 of add: drop the url's item, push the new one
Requeue(q, item) == Append(SelectSeq(q, LAMBDA x : x.url # item.url), item)

\* an early return that looks at the cache only
AddReturnsEarlyCachedOnly(url) == MapHas(imageCache, url)

\* line 170 of add: the early return
AddReturnsEarly(url) == url \in loading \/ MapHas(imageCache, url)

\* line 214 of processQueue: nothing to do
NothingToDo(q) == Cardinality(q.loading) >= maxConcurrent \/ q.queue = <<>>

\* a processQueue without the throttle test of lines 208-212
processQueueUnthrottled(q) ==
    IF NothingToDo(q) THEN q
    ELSE LET item == Head(q.queue)
             q1 == [q EXCEPT !.sinceProcess = 0, !.queue = Tail(@),
                             !.item = item]
         IN  IF MapHas(imageCache, item.url) THEN q1
             ELSE [q1 EXCEPT !.loading = @ \cup {item.url},
                             !.decoding[item.url] = @ + 1,
                             !.started = TRUE]

\* ThrottledPreloadQueue.processQueue up to its await, lines 205-223.  q holds
\* the queue's fields; item is what was shifted off the queue and started
\* tells whether a decode of it was begun.
processQueue(q) ==
    IF q.sinceProcess < throttleDelay
    THEN [q EXCEPT !.timers = AddTimer(@, throttleDelay)]
    ELSE IF NothingToDo(q) THEN q
    ELSE LET item == Head(q.queue)
             q1 == [q EXCEPT !.sinceProcess = 0, !.queue = Tail(@),
                             !.item = item]
         IN  IF MapHas(imageCache, item.url) THEN q1
             ELSE [q1 EXCEPT !.loading = @ \cup {item.url},
                             !.decoding[item.url] = @ + 1,
                             !.started = TRUE]

Fields ==
    [queue |-> queue, loading |-> loading, sinceProcess |-> sinceProcess,
     timers |-> timers, decoding |-> decoding, item |-> NoItem,
     replaced |-> NoItem, started |-> FALSE]

\* the observation of one step of the queue: item is what processQueue took
\* off the queue, started whether a decode of it was begun, replaced the
\* pending item that add removed for the new one
QueueEvent(op, url, r) ==
    [op |-> op, key |-> url, item |-> r.item, replaced |-> r.replaced,
     started |-> r.started]

\* the pending item of a url, lines 173 of add
Pending(q, url) ==
    IF \E i \in DOMAIN q : q[i].url = url
    THEN q[CHOOSE i \in DOMAIN q : q[i].url = url]
    ELSE NoItem

\* the log of add calls that took effect: the latest one of every url, in the
\* order the calls were made
Record(log, item) == SelectSeq(log, LAMBDA x : x.url # item.url) \o <<item>>


\* The latest add call of every url that is pending, or was taken off the
\* queue by the step just made, in the order of the calls.
StillPending(log, r) ==
    SelectSeq(log, LAMBDA x : x.url = r.item.url
                              \/ \E i \in DOMAIN r.queue : r.queue[i].url = x.url)

Store(r) ==
    /\ Len(r.timers) <= MaxTimers
    /\ queue' = r.queue
    /\ loading' = r.loading
    /\ sinceProcess' = r.sinceProcess
    /\ timers' = r.timers
    /\ decoding' = r.decoding

\* ThrottledPreloadQueue.add, lines 169-180
Add(url, priority, distance) ==
    /\ IF AddReturnsEarly(url)
       THEN /\ queueEvent' = QueueEvent("add", url, Fields)
            /\ UNCHANGED <<queue, loading, sinceProcess, timers, decoding,
                           enqueued>>
       ELSE LET item == Item(url, priority, distance)
                q1 == sortQueue(Requeue(queue, item), scrollDirection)
                r == processQueue([Fields EXCEPT !.queue = q1,
                                   !.replaced = Pending(queue, url)])
            IN  /\ Store(r)
                /\ queueEvent' = QueueEvent("add", url, r)
                /\ enqueued' = StillPending(Record(enqueued, item), r)
    /\ NoCacheCall /\ NoVideoCall
    /\ UNCHANGED <<videoVars, scrollVars>>

\* a setTimeout(() => this.processQueue(), ...) callback, lines 210 and 229
ProcessQueueTimer ==
    \E i \in DOMAIN timers :
        /\ timers[i] = 0
        /\ LET r == processQueue([Fields EXCEPT !.timers = RemoveAt(timers, i)])
           IN  /\ Store(r)
               /\ queueEvent' = QueueEvent("timer", None, r)
               /\ enqueued' = StillPending(enqueued, r)
        /\ NoCacheCall /\ NoVideoCall
        /\ UNCHANGED <<videoVars, scrollVars>>

\* what a decode settles with: a result that holds an image, a result that
\* holds none (preloadImage line 236), a rejection
Outcomes == {"image", "empty", "error"}

\* a continuation whose cleanup of lines 227-229 runs for a fulfilled decode
\* only
DecodeSettledNoFinally(url, outcome) ==
    /\ decoding[url] > 0
    /\ Len(timers) < MaxTimers
    /\ IF outcome = "image"
       THEN ImageCacheCall("set", url,
                LRUSet(imageCache, IMAGE_CACHE_MAX_SIZE, url, Image(url)))
       ELSE NoCacheCall
    /\ NoVideoCall
    /\ decoding' = [decoding EXCEPT ![url] = @ - 1]
    /\ loading' = IF outcome = "error" THEN loading ELSE loading \ {url}
    /\ timers' = IF outcome = "error" THEN timers
                 ELSE AddTimer(timers, cooldownDelay)
    /\ queueEvent' = [NoQueueEvent EXCEPT !.op = outcome, !.key = url]
    /\ enqueued' = StillPending(enqueued, [Fields EXCEPT !.queue = queue])
    /\ UNCHANGED <<queue, sinceProcess, videoVars, scrollVars>>

\* a then callback of preloadImage without the test of line 236
DecodeSettledAnyResult(url, outcome) ==
    /\ decoding[url] > 0
    /\ Len(timers) < MaxTimers
    /\ IF outcome # "error"
       THEN ImageCacheCall("set", url,
                LRUSet(imageCache, IMAGE_CACHE_MAX_SIZE, url, Image(url)))
       ELSE NoCacheCall
    /\ NoVideoCall
    /\ decoding' = [decoding EXCEPT ![url] = @ - 1]
    /\ loading' = loading \ {url}
    /\ timers' = AddTimer(timers, cooldownDelay)
    /\ queueEvent' = [NoQueueEvent EXCEPT !.op = outcome, !.key = url]
    /\ enqueued' = StillPending(enqueued, [Fields EXCEPT !.queue = queue])
    /\ UNCHANGED <<queue, sinceProcess, videoVars, scrollVars>>

\* the continuation of processQueue after its await, lines 223-230, with the
\* then callback of preloadImage, lines 233-241
DecodeSettled(url, outcome) ==
    /\ decoding[url] > 0
    /\ Len(timers) < MaxTimers
    /\ IF outcome = "image"
       THEN ImageCacheCall("set", url,
                LRUSet(imageCache, IMAGE_CACHE_MAX_SIZE, url, Image(url)))
       ELSE NoCacheCall
    /\ NoVideoCall
    /\ decoding' = [decoding EXCEPT ![url] = @ - 1]
    /\ loading' = loading \ {url}
    /\ timers' = AddTimer(timers, cooldownDelay)
    /\ queueEvent' = [NoQueueEvent EXCEPT !.op = outcome, !.key = url]
    /\ enqueued' = StillPending(enqueued, [Fields EXCEPT !.queue = queue])
    /\ UNCHANGED <<queue, sinceProcess, videoVars, scrollVars>>

RECURSIVE SumOver(_, _)
SumOver(f, S) ==
    IF S = {} THEN 0
    ELSE LET x == CHOOSE y \in S : TRUE IN f[x] + SumOver(f, S \ {x})

Unsettled == SumOver(decoding, DOMAIN decoding)

\* ThrottledPreloadQueue.clear, lines 284-287
clear ==
    /\ queue' = <<>>
    /\ loading' = {}

\* clearCache of the hook, lines 581-587 (videoCacheMetadata is only written
\* by preloadVideoPoster, which nothing calls: it is always empty)
clearCache ==
    /\ Unsettled <= MaxStaleDecodes
    /\ ImageCacheCall("clear", None, LRUClear(imageCache))
    /\ clear
    /\ enqueued' = <<>>
    /\ queueEvent' = [NoQueueEvent EXCEPT !.op = "clear"]
    /\ NoVideoCall
    /\ UNCHANGED <<sinceProcess, timers, decoding, videoVars, scrollVars>>

\* getCachedImage of the hook, lines 329-331
getCachedImage(url) ==
    /\ ImageCacheCall("get", url, LRUGet(imageCache, url))
    /\ NoVideoCall /\ NoQueueCall
    /\ UNCHANGED <<videoVars, queueVars, scrollVars>>

\* TickMs milliseconds pass
Tick ==
    /\ \/ \E i \in DOMAIN timers : timers[i] > 0
       \/ sinceProcess < throttleDelay
       \/ scrollTimeout > 0
    /\ timers' = [i \in DOMAIN timers |-> Elapse(timers[i])]
    /\ sinceProcess' = Later(sinceProcess)
    /\ scrollTimeout' = IF scrollTimeout = NoTimer THEN NoTimer
                        ELSE Elapse(scrollTimeout)
    /\ NoCacheCall /\ NoVideoCall /\ NoQueueCall
    /\ UNCHANGED <<queue, loading, decoding, enqueued, scrollDirection,
                   lastScrollY, videoVars>>

----------------------------------------------------------------------------
(* ImageDecoderService  (services/imageDecoderService.ts)                  *)

\* the delay of the timer decodeImage arms for a posted request, line 176
decodeTimeout == 30000

\* the step of the coarse clock the decode timers are counted by
LongTickMs == decodeTimeout

\* requests the service numbers, decodeImage calls open at a time when the
\* service is called directly
MaxRequests == 2
MaxCalls == 2

\* url 2 is a local-file:// address, the other urls are http addresses
IsLocalFile(url) == url = 2

\* the test of lines 136-140 and 188-192
NeedsConversion(url) == IsLocalFile(url) /\ electron

\* the address a request carries when its url was not converted
AddressOf(url) == IF IsLocalFile(url) THEN "local-file" ELSE "http"

\* this.worker: null, or the Worker object the service holds
NoWorker == "null"
Worker == "Worker"

decoderVars == <<service, orphans, calls, atWorker, requestTimers>>

NoDecoderEvent == [op |-> "none", id |-> 0, url |-> 0, known |-> FALSE]

DecoderEvent(op, id, url, known) ==
    [op |-> op, id |-> id, url |-> url, known |-> known]

\* the step just made called nothing of the decoder service
NoServiceCall == decoderEvent' = NoDecoderEvent /\ UNCHANGED decoderVars

\* the service and what surrounds it, as one value the methods transform
World ==
    [service |-> service, orphans |-> orphans, calls |-> calls,
     atWorker |-> atWorker, requestTimers |-> requestTimers]

Becomes(d) ==
    /\ service' = d.service
    /\ orphans' = d.orphans
    /\ calls' = d.calls
    /\ atWorker' = d.atWorker
    /\ requestTimers' = d.requestTimers

\* the fields of a new ImageDecoderService, lines 33-42, before its constructor
\* runs
Fresh ==
    [service |-> [worker |-> NoWorker, workerInitialized |-> FALSE,
                  requestIdCounter |-> 0, pendingRequests |-> <<>>],
     orphans |-> FALSE,
     calls |-> <<>>, atWorker |-> {}, requestTimers |-> <<>>]

\* initializeWorker, lines 48-66; ok tells whether new Worker(...) returns
\* (the try block) or throws (the catch block)
initializeWorker(d, ok) ==
    IF ok
    THEN [d EXCEPT !.service.worker = Worker,
                   !.service.workerInitialized = TRUE]
    ELSE [d EXCEPT !.service.worker = NoWorker,
                   !.service.workerInitialized = FALSE]

\* a call of decodeImage whose promise is not settled, or is settled and has
\* its reactions still to run
NewCall(url) ==
    [url |-> url, stage |-> "called", id |-> 0, outcome |-> "none",
     by |-> "none"]

\* what the promise of a call settles with, after what happened: the result
\* objects of lines 79-100 and 216, the rejections
ResultOf(by) ==
    CASE by = "imageBitmap" -> "image"
      [] by = "fallbackImageData" -> "image"
      [] by = "noContext" -> "empty"
      [] by = "fallbackImage" -> "image"
      [] OTHER -> "error"

\* resolve or reject of the promise of call i
Settle(d, i, by) ==
    [d EXCEPT !.calls[i] = [@ EXCEPT !.stage = "settled",
                                     !.outcome = ResultOf(by),
                                     !.by = by]]

\* the calls whose promise the pending request id holds the callbacks of and
\* that are not settled yet (settling twice changes nothing)
CallsOf(cs, id) ==
    { i \in DOMAIN cs : cs[i].id = id /\ cs[i].stage = "posted" }

CallsOfStage(cs, stage) == { i \in DOMAIN cs : cs[i].stage = stage }

SettleRequest(d, id, by) ==
    LET I == CallsOf(d.calls, id)
    IN  IF I = {} THEN d ELSE Settle(d, CHOOSE i \in I : TRUE, by)

\* decodeImageMainThread, lines 183-237, up to its first await or to the
\* Image it starts loading
decodeImageMainThread(d, i) ==
    [d EXCEPT !.calls[i].stage = IF NeedsConversion(d.calls[i].url)
                                 THEN "mainConverting" ELSE "mainLoading"]

\* decodeImage from line 157 on: the request is numbered, registered, posted
\* and timed; postMessage on a worker that is null throws, the promise is
\* rejected and lines 171-176 are not reached
postRequest(d, i, address) ==
    LET id == d.service.requestIdCounter + 1
        s == [d.service EXCEPT
                 !.requestIdCounter = id,
                 !.pendingRequests = MapSet(@, id, d.calls[i].url)]
    IN  IF d.service.worker = NoWorker
        THEN [d EXCEPT !.service = s,
                       !.calls[i] = [@ EXCEPT !.stage = "settled",
                                              !.id = id,
                                              !.outcome = "error",
                                              !.by = "postMessage"]]
        ELSE [d EXCEPT !.service = s,
                       !.calls[i] = [@ EXCEPT !.stage = "posted", !.id = id],
                       !.atWorker = @ \cup {[id |-> id, orphan |-> FALSE,
                                             address |-> address]},
                       !.requestTimers = Append(@, [id |-> id,
                                                    left |-> decodeTimeout])]

\* decodeImage, lines 124-178, up to its first await or to its return
decodeImage(d, url) ==
    LET i == Len(d.calls) + 1
        d1 == [d EXCEPT !.calls = Append(@, NewCall(url))]
    IN  IF d.service.worker = NoWorker \/ ~d.service.workerInitialized
        THEN decodeImageMainThread(d1, i)
        ELSE IF NeedsConversion(url)
             THEN [d1 EXCEPT !.calls[i].stage = "converting"]
             ELSE postRequest(d1, i, AddressOf(url))

\* a decodeImage that posts the local-file:// address when its conversion
\* fails
conversionSettledPostsAnyway(d, i, ok) ==
    IF d.calls[i].stage = "converting"
    THEN postRequest(d, i, IF ok THEN "data" ELSE "local-file")
    ELSE IF ok THEN [d EXCEPT !.calls[i].stage = "mainLoading"]
         ELSE Settle(d, i, "cannotLoad")

\* convertImageToBase64 settles for call i: decodeImage goes on from line 147
\* or 153, decodeImageMainThread from line 199 or 202
conversionSettled(d, i, ok) ==
    IF d.calls[i].stage = "converting"
    THEN IF ok THEN postRequest(d, i, "data")
         ELSE decodeImageMainThread(d, i)
    ELSE IF ok THEN [d EXCEPT !.calls[i].stage = "mainLoading"]
         ELSE Settle(d, i, "cannotLoad")

\* a handler that takes the oldest pending request for a response whose id
\* it does not find
handleWorkerMessageAnyPending(d, id, kind) ==
    LET pending == d.service.pendingRequests
        found == IF MapHas(pending, id) THEN id
                 ELSE IF pending # <<>> THEN pending[1].key ELSE 0
    IN  IF found = 0 THEN d
        ELSE SettleRequest(
                 [d EXCEPT !.service.pendingRequests = MapDelete(@, found)],
                 found, kind)

\* handleWorkerMessage, lines 68-106; kind is what the response carries, and
\* for image data whether the canvas gave a 2d context
handleWorkerMessage(d, id, kind) ==
    IF ~MapHas(d.service.pendingRequests, id) THEN d
    ELSE SettleRequest(
             [d EXCEPT !.service.pendingRequests = MapDelete(@, id)],
             id, kind)

\* a timer callback that rejects and leaves the request in the table
requestTimeoutKeepsId(d, id) ==
    IF ~MapHas(d.service.pendingRequests, id) THEN d
    ELSE SettleRequest(d, id, "timeout")

\* the callback of the timer of lines 171-176
requestTimeout(d, id) ==
    IF ~MapHas(d.service.pendingRequests, id) THEN d
    ELSE SettleRequest(
             [d EXCEPT !.service.pendingRequests = MapDelete(@, id)],
             id, "timeout")

\* the loops of lines 112-114 and 305-307 with the clear that follows them
RECURSIVE RejectAll(_, _, _)
RejectAll(d, pending, by) ==
    IF pending = <<>> THEN [d EXCEPT !.service.pendingRequests = <<>>]
    ELSE RejectAll(SettleRequest(d, Head(pending).key, by), Tail(pending), by)

\* the Worker the service holds is dropped and goes on running, with the
\* requests it was posted
Orphaned(d) ==
    IF d.service.worker = NoWorker THEN d
    ELSE [d EXCEPT !.orphans = TRUE,
                   !.atWorker = { [m EXCEPT !.orphan = TRUE] : m \in @ }]

\* handleWorkerError, lines 108-119; this.worker is overwritten and the
\* Worker it held is not terminated
handleWorkerError(d, ok) ==
    initializeWorker(
        Orphaned(RejectAll(d, d.service.pendingRequests, "workerError")),
        ok)

\* terminate, lines 297-309
terminate(d) ==
    LET d1 == IF d.service.worker = NoWorker THEN d
              ELSE [d EXCEPT !.atWorker = { m \in @ : m.orphan },
                             !.service.worker = NoWorker,
                             !.service.workerInitialized = FALSE]
    IN  RejectAll(d1, d1.service.pendingRequests, "terminate")

\* what a worker answers a request with (imageDecoderWorker.ts), the image
\* data split by whether getContext('2d') of line 86 returns a context
ResponseKinds == {"imageBitmap", "fallbackImageData", "noContext", "failure"}

\* a settled promise has reactions to run: they run before any other event
Microtasks == \E i \in DOMAIN calls : calls[i].stage = "settled"

\* the settled call whose reactions run next
NextReaction ==
    CHOOSE j \in DOMAIN calls :
        /\ calls[j].stage = "settled"
        /\ \A k \in 1..(j - 1) : calls[k].stage # "settled"

\* the step just made called nothing of the caches and of the queue
PipelineIdle ==
    /\ NoCacheCall /\ NoVideoCall /\ NoQueueCall
    /\ UNCHANGED <<videoVars, queueVars, scrollVars, dispatched>>

\* preloadImage line 234: the decode processQueue starts is a decodeImage call
Dispatching ==
    /\ ~Microtasks
    /\ service.requestIdCounter < MaxRequests
    /\ IF queueEvent'.started
       THEN /\ Becomes(decodeImage(World, queueEvent'.item.url))
            /\ decoderEvent' = DecoderEvent("decodeImage", 0,
                                            queueEvent'.item.url, FALSE)
       ELSE NoServiceCall

\* decodeImage called directly, as the test utilities of the worker do
DecodeCall(url) ==
    /\ ~Microtasks
    /\ Len(calls) < MaxCalls
    /\ service.requestIdCounter < MaxRequests
    /\ Becomes(decodeImage(World, url))
    /\ decoderEvent' = DecoderEvent("decodeImage", 0, url, FALSE)
    /\ PipelineIdle

\* the direct caller goes on after its await
Delivered ==
    /\ Microtasks
    /\ LET i == NextReaction
       IN  /\ calls' = RemoveAt(calls, i)
           /\ decoderEvent' = DecoderEvent("settled", calls[i].id,
                                           calls[i].url, FALSE)
    /\ UNCHANGED <<service, orphans, atWorker, requestTimers>>
    /\ PipelineIdle

\* the reactions of a settled decodeImage promise: the then callback of
\* preloadImage and the rest of processQueue
Continuation ==
    /\ Microtasks
    /\ LET i == NextReaction
       IN  /\ DecodeSettled(calls[i].url, calls[i].outcome)
           /\ calls' = RemoveAt(calls, i)
           /\ decoderEvent' = DecoderEvent("settled", calls[i].id,
                                           calls[i].url, FALSE)
    /\ UNCHANGED <<service, orphans, atWorker, requestTimers, dispatched>>

ConversionSettled(i, ok) ==
    /\ ~Microtasks
    /\ calls[i].stage \in {"converting", "mainConverting"}
    /\ service.requestIdCounter < MaxRequests
    /\ Becomes(conversionSettled(World, i, ok))
    /\ decoderEvent' = DecoderEvent("conversion", 0, calls[i].url, ok)
    /\ PipelineIdle

\* onload or onerror of the Image of decodeImageMainThread, lines 209-229
ImageLoaded(i, ok) ==
    /\ ~Microtasks
    /\ calls[i].stage = "mainLoading"
    /\ Becomes(Settle(World, i, IF ok THEN "fallbackImage" ELSE "loadError"))
    /\ decoderEvent' = DecoderEvent("load", 0, calls[i].url, ok)
    /\ PipelineIdle

\* a worker that is not terminated answers a request it was posted
WorkerMessage(m, kind) ==
    /\ ~Microtasks
    /\ Becomes(handleWorkerMessage(
                   [World EXCEPT !.atWorker = @ \ {m}], m.id, kind))
    /\ decoderEvent' = DecoderEvent("message", m.id, 0,
                           MapHas(service.pendingRequests, m.id))
    /\ PipelineIdle

\* the timer of a request runs its callback
RequestTimeout(k) ==
    /\ ~Microtasks
    /\ requestTimers[k].left = 0
    /\ Becomes(requestTimeout(
                   [World EXCEPT !.requestTimers = RemoveAt(@, k)],
                   requestTimers[k].id))
    /\ decoderEvent' = DecoderEvent("timeout", requestTimers[k].id, 0,
                           MapHas(service.pendingRequests, requestTimers[k].id))
    /\ PipelineIdle

\* a worker that is not terminated reports an error
WorkerError(ok) ==
    /\ ~Microtasks
    /\ service.worker # NoWorker \/ orphans
    /\ Becomes(handleWorkerError(World, ok))
    /\ decoderEvent' = DecoderEvent("workerError", 0, 0, ok)
    /\ PipelineIdle

Terminate ==
    /\ ~Microtasks
    /\ Becomes(terminate(World))
    /\ decoderEvent' = DecoderEvent("terminate", 0, 0, FALSE)
    /\ PipelineIdle

\* LongTickMs milliseconds pass: every timer of the queue is due after them
LongTick ==
    /\ ~Microtasks
    /\ \/ \E k \in DOMAIN requestTimers : requestTimers[k].left > 0
       \/ \E i \in DOMAIN timers : timers[i] > 0
       \/ sinceProcess < throttleDelay
    /\ requestTimers' = [k \in DOMAIN requestTimers |->
           [requestTimers[k] EXCEPT
               !.left = IF @ > LongTickMs THEN @ - LongTickMs ELSE 0]]
    /\ timers' = [i \in DOMAIN timers |-> 0]
    /\ sinceProcess' = throttleDelay
    /\ scrollTimeout' = IF scrollTimeout = NoTimer THEN NoTimer ELSE 0
    /\ decoderEvent' = NoDecoderEvent
    /\ NoCacheCall /\ NoVideoCall /\ NoQueueCall
    /\ UNCHANGED <<queue, loading, decoding, enqueued, scrollDirection,
                   lastScrollY, videoVars, dispatched, service, orphans,
                   calls, atWorker>>

----------------------------------------------------------------------------
(* The worker script  (workers/imageDecoderWorker.ts) and the bitmaps it    *)
(* transfers                                                                *)

\* what is behind the address of a request: an image of some size, nothing
\* that can be fetched, bytes that are no image
SourceSizes == {[width |-> 4, height |-> 3], [width |-> 2, height |-> 5]}
NoSize == [width |-> 0, height |-> 0]
Sources ==
    [kind : {"image"}, size : SourceSizes]
        \cup [kind : {"unreachable", "corrupt"}, size : {NoSize}]

Response(kind, size) == [kind |-> kind, size |-> size]

\* self.onmessage, lines 29-120: the response posted for a request; hasImage
\* tells whether the scope the script runs in has an Image constructor (the
\* scope of a dedicated worker has none: line 74 throws), ctx whether
\* getContext('2d') of line 90 returns a context
onmessage(supports, source, hasImage, ctx) ==
    IF supports
    THEN IF source.kind = "image"
         THEN Response("imageBitmap", source.size)
         ELSE Response("failure", NoSize)
    ELSE IF source.kind = "unreachable" THEN Response("failure", NoSize)
         ELSE IF ~hasImage THEN Response("failure", NoSize)
         ELSE IF source.kind = "corrupt" THEN Response("failure", NoSize)
         ELSE IF ~ctx THEN Response("failure", NoSize)
         ELSE Response("fallbackImageData", source.size)

\* what handleWorkerMessage makes of the response, lines 78-104: the canvas of
\* lines 85-87 has the size the response states; mainCtx tells whether
\* getContext('2d') of line 89 returns a context
Received(response, mainCtx) ==
    IF response.kind = "fallbackImageData" /\ ~mainCtx
    THEN Response("noContext", NoSize)
    ELSE response

\* what the scopes of the worker and of the window provide
scopeVars == <<supportsCreateImageBitmap, electron>>

NoWorkerEvent ==
    [op |-> "none", id |-> 0, source |-> [kind |-> "none", size |-> NoSize],
     result |-> Response("none", NoSize)]

\* a bitmap the worker transferred for request id, and how often it was closed
Bitmap(id) == [id |-> id, closes |-> 0]

\* imageBitmap.close() on the bitmap of request id
Close(bs, id) ==
    { IF b.id = id THEN [b EXCEPT !.closes = @ + 1] ELSE b : b \in bs }

\* createImageFromResult, lines 242-274, for the result the call by was
\* settled with: the bitmap is closed at line 261, under the test of line 256
createImageFromResult(bs, call, ctx) ==
    IF call.by = "imageBitmap" /\ ctx THEN Close(bs, call.id) ELSE bs

\* the step just made ran nothing of the worker script and touched no bitmap
WorkerIdle ==
    /\ workerEvent' = NoWorkerEvent
    /\ UNCHANGED <<scopeVars, bitmaps>>

\* the worker script answers a request: the response reaches
\* handleWorkerMessage; the protocol handler of local-file:// is out of the
\* worker's reach (part_004 line 134)
Answered(m, source, hasImage, ctx, mainCtx) ==
    LET response == onmessage(supportsCreateImageBitmap, source, hasImage, ctx)
        result == Received(response, mainCtx)
    IN  /\ m.address = "local-file" => source.kind = "unreachable"
        /\ WorkerMessage(m, result.kind)
        /\ workerEvent' = [op |-> "answer", id |-> m.id, source |-> source,
                           result |-> result]
        /\ bitmaps' = IF response.kind = "imageBitmap"
                      THEN bitmaps \cup {Bitmap(m.id)} ELSE bitmaps
        /\ UNCHANGED scopeVars

\* the reactions of a settled call, with createImageFromResult of line 237
Rendered(ctx) ==
    /\ Continuation
    /\ bitmaps' = IF calls[NextReaction].outcome = "image"
                  THEN createImageFromResult(bitmaps, calls[NextReaction], ctx)
                  ELSE bitmaps
    /\ workerEvent' = [NoWorkerEvent EXCEPT !.op = "createImageFromResult",
                                            !.id = calls[NextReaction].id]
    /\ UNCHANGED scopeVars

----------------------------------------------------------------------------
(* class DOMBatcher  (domBatcher.ts 12-116)                                 *)

\* the element ids queueOperation is called with and the operations
ElementIds == {1, 2}
Operations == {"show", "hide"}

\* queueOperation calls between two batches
MaxQueued == 3

NoBatcherEvent == [op |-> "none", applied |-> <<>>, queued |-> 0]

\* the instance after its construction, lines 13-15: batchTimeout is "null",
\* "pending" (the timer runs) or "fired" (the handle of a timer whose
\* callback has run); animationFrame is "null", "requested" or "stale" (the
\* handle of a frame whose callback has run)
NewBatcher ==
    [pendingOperations |-> <<>>, batchTimeout |-> "null",
     animationFrame |-> "null"]

\* the step just made called nothing of the batcher
BatcherIdle ==
    /\ batcherEvent' = NoBatcherEvent
    /\ UNCHANGED <<batcher, batchLog>>

\* a queueOperation that keeps the operation an id already has
queueOperationKeepsFirst(b, operation, id) ==
    LET stored == IF MapHas(b.pendingOperations, id) THEN b
                  ELSE [b EXCEPT !.pendingOperations =
                            MapSet(@, id, [operation |-> operation,
                                           id |-> id])]
    IN  IF stored.batchTimeout = "null"
        THEN [stored EXCEPT !.batchTimeout = "pending"]
        ELSE stored

\* queueOperation, lines 20-28, with scheduleBatch, lines 33-49 (the element
\* is the one that has the id)
queueOperation(b, operation, id) ==
    LET stored == [b EXCEPT !.pendingOperations =
                       MapSet(@, id, [operation |-> operation, id |-> id])]
    IN  IF stored.batchTimeout = "null"
        THEN [stored EXCEPT !.batchTimeout = "pending"]
        ELSE stored

\* the operations of a kind in the order of pendingOperations.values(),
\* lines 60-69
OperationsOf(b, kind) ==
    SelectSeq([i \in DOMAIN b.pendingOperations |->
                   b.pendingOperations[i].value],
              LAMBDA o : o.operation = kind)

\* batchDOMOperations, lines 83-98: the operations in the order their
\* elements are styled
batchDOMOperations(hideOps, showOps) == hideOps \o showOps

\* executeBatch, lines 54-78
executeBatch(b) ==
    IF b.pendingOperations = <<>> THEN b
    ELSE [pendingOperations |-> <<>>, batchTimeout |-> "null",
          animationFrame |-> "null"]

\* DOMBatcher.clear, lines 103-115
clearBatcher(b) ==
    [pendingOperations |-> <<>>, batchTimeout |-> "null",
     animationFrame |-> "null"]

QueueOperation(operation, id) ==
    /\ Len(batchLog) < MaxQueued
    /\ batcher' = queueOperation(batcher, operation, id)
    /\ batchLog' = Append(batchLog, [operation |-> operation, id |-> id])
    /\ batcherEvent' = [NoBatcherEvent EXCEPT !.op = "queueOperation"]

\* the callback of the timer of line 40
BatchTimeout ==
    /\ batcher.batchTimeout = "pending"
    /\ batcher' = [batcher EXCEPT !.batchTimeout = "fired",
                                  !.animationFrame = "requested"]
    /\ batcherEvent' = [NoBatcherEvent EXCEPT !.op = "timeout"]
    /\ UNCHANGED batchLog

\* the callback of the frame of line 45: executeBatch with the call of line
\* 72
AnimationFrame ==
    /\ batcher.animationFrame = "requested"
    /\ batcher' = executeBatch([batcher EXCEPT !.animationFrame = "stale"])
    /\ batcherEvent' =
           [op |-> "executeBatch",
            applied |-> batchDOMOperations(OperationsOf(batcher, "hide"),
                                           OperationsOf(batcher, "show")),
            queued |-> Len(batchLog)]
    /\ batchLog' = <<>>

ClearBatcher ==
    /\ batcher' = clearBatcher(batcher)
    /\ batcherEvent' = [NoBatcherEvent EXCEPT !.op = "clear"]
    /\ batchLog' = <<>>

----------------------------------------------------------------------------
(* The tag and folder stores: moveTag, moveFolder and the path walks        *)
(* (useDebounce.ts 355-400, 862-909)                                       *)

\* the ids of the tags and of the folders; parentId undefined is None
ItemIds == {1, 2}

\* moves whose storage call is not settled, in both stores together
MaxMoves == 2

NoStoreEvent == [op |-> "none", store |-> "none", id |-> None,
                 newParentId |-> None]

\* the step just made called nothing of the stores
StoresIdle ==
    /\ storeEvent' = NoStoreEvent
    /\ UNCHANGED <<tags, folders, moves>>

\* wouldCreateCycle(checkId), lines 359-363 and 866-870, over the items of
\* the closure; the recursion of the source does not return on a cycle, so
\* it is followed for as many links as there are items
RECURSIVE wouldCreateCycleWithin(_, _, _, _)
wouldCreateCycleWithin(items, itemId, checkId, links) ==
    IF checkId = itemId THEN TRUE
    ELSE IF items[checkId] = None \/ links = 0 THEN FALSE
    ELSE wouldCreateCycleWithin(items, itemId, items[checkId], links - 1)

wouldCreateCycle(items, itemId, checkId) ==
    wouldCreateCycleWithin(items, itemId, checkId, Cardinality(ItemIds))

\* the test of lines 358-369 and 865-876: the move is refused
Refused(items, itemId, newParentId) ==
    newParentId # None /\ wouldCreateCycle(items, itemId, newParentId)

\* the updater of setTags and setFolders, lines 376-380 and 883-887
Moved(prev, itemId, newParentId) == [prev EXCEPT ![itemId] = newParentId]

\* the number of names getTagPath and getFolderPath (lines 390-402, 897-909)
\* collect from itemId, or Diverges when the loop does not end: a walk that
\* ends visits no item twice
Diverges == -1

RECURSIVE PathWithin(_, _, _)
PathWithin(items, currentId, links) ==
    IF currentId = None THEN 0
    ELSE IF links = 0 THEN Diverges
    ELSE LET rest == PathWithin(items, items[currentId], links - 1)
         IN  IF rest = Diverges THEN Diverges ELSE rest + 1

getTagPath(items, tagId) == PathWithin(items, tagId, Cardinality(ItemIds))

getFolderPath(items, folderId) ==
    PathWithin(items, folderId, Cardinality(ItemIds))

\* a move up to its await, lines 356-372 and 863-879, called from the latest
\* render
StartMove(store, items, itemId, newParentId) ==
    IF Refused(items, itemId, newParentId)
    THEN /\ storeEvent' = [op |-> "refused", store |-> store, id |-> itemId,
                           newParentId |-> newParentId]
         /\ UNCHANGED moves
    ELSE /\ Cardinality(moves) < MaxMoves
         /\ moves' = moves \cup {[store |-> store, id |-> itemId,
                                  newParentId |-> newParentId]}
         /\ storeEvent' = [op |-> "move", store |-> store, id |-> itemId,
                           newParentId |-> newParentId]

moveTag(tagId, newParentId) ==
    /\ StartMove("tags", tags, tagId, newParentId)
    /\ UNCHANGED <<tags, folders>>

moveFolder(folderId, newParentId) ==
    /\ StartMove("folders", folders, folderId, newParentId)
    /\ UNCHANGED <<tags, folders>>

\* window.electron.moveTag or moveFolder settles and the move goes on, lines
\* 372-382 and 879-889
MoveSettled(m, success) ==
    /\ m \in moves
    /\ moves' = moves \ {m}
    /\ tags' = IF success /\ m.store = "tags"
               THEN Moved(tags, m.id, m.newParentId) ELSE tags
    /\ folders' = IF success /\ m.store = "folders"
                  THEN Moved(folders, m.id, m.newParentId) ELSE folders
    /\ storeEvent' = [op |-> IF success THEN "moved" ELSE "failed",
                      store |-> m.store, id |-> m.id,
                      newParentId |-> m.newParentId]

\* the step just made called nothing of the batcher or of the stores, and
\* the component that uses the hook was not rendered with other images
PageIdle == BatcherIdle /\ StoresIdle /\ UNCHANGED <<images, criticalTimer>>

----------------------------------------------------------------------------
(* The images the hook is given  (useImagePreloader.ts 308-310; ImageItem)  *)

\* an image whose id and url are e
Photo(e) == [id |-> e, type |-> "image", url |-> e, posterUrl |-> None]

\* an image with a data: url; a video with a poster and one without
Inline == [id |-> 1, type |-> "image", url |-> DataUrl, posterUrl |-> None]
Clip == [id |-> 2, type |-> "video", url |-> 2, posterUrl |-> PosterUrl]
BareClip == [id |-> 2, type |-> "video", url |-> 2, posterUrl |-> None]

\* the lists the component is rendered with
ImageLists ==
    { first \o second : first \in {<<>>, <<Photo(1)>>, <<Inline>>},
                        second \in {<<>>, <<Clip>>, <<BareClip>>} }

\* images.find(img => img.id === imageId), line 418, and the index of line
\* 417; NoResource when there is none
NoResource == [id |-> None, type |-> "none", url |-> None, posterUrl |-> None]

HasImage(list, imageId) == \E i \in DOMAIN list : list[i].id = imageId

IndexOf(list, imageId) ==
    IF HasImage(list, imageId)
    THEN (CHOOSE i \in DOMAIN list :
              /\ list[i].id = imageId
              /\ \A j \in 1..(i - 1) : list[j].id # imageId) - 1
    ELSE 0

FindImage(list, imageId) ==
    IF HasImage(list, imageId) THEN list[IndexOf(list, imageId) + 1]
    ELSE NoResource

\* the key lines 432-437 and 520-524 pass to preloadQueue.add
PreloadKey(image) ==
    IF image.type = "video"
    THEN IF image.posterUrl = None THEN EmptyUrl ELSE image.posterUrl
    ELSE image.url

\* the test of lines 439-444 and 493-497
IsLoaded(cache, image) ==
    \/ image.type = "image" /\ MapHas(cache, image.url)
    \/ /\ image.type = "video"
       /\ image.posterUrl # None
       /\ MapHas(cache, image.posterUrl)

----------------------------------------------------------------------------
(* The hook useImagePreloader  (useImagePreloader.ts 308-600)               *)

NoHookEvent == [op |-> "none", key |-> 0, hidden |-> {}]

\* the step just made called nothing of the hook
HookIdle ==
    /\ hookEvent' = NoHookEvent
    /\ UNCHANGED <<hook, promises>>
    /\ PageIdle

\* the step just made is one of the hook alone, with the abstract decoder
OnlyHook == UNCHANGED dispatched /\ NoServiceCall /\ WorkerIdle /\ PageIdle

\* the step just made called neither a cache nor the queue
CachesAndQueueIdle ==
    /\ NoCacheCall /\ NoVideoCall /\ NoQueueCall
    /\ UNCHANGED <<videoVars, queueVars, scrollVars>>

\* the elements of the grid, element e showing the image whose id and url
\* are e (ImageGrid.tsx keeps one ref for each image id)
Elements == Urls

\* window.innerHeight and the height of an element's rectangle
InnerHeight == 200
ElementHeight == 50

\* intersectionRatio of an intersecting entry, in percent
Ratios == {50, 100}

\* useState and useRef of lines 319-322 at the first render: the effect of
\* lines 403-460 has not run yet, so observerRef.current is null.
\* observed: the targets of observerRef.current, each carrying the
\* data-image-id that observeElement has set before it observed the element;
\* closure: the visibleImages and loadedImages the callback of the current
\* observer was created with; dirty: a state update waits for its render
Mounted ==
    [loadedImages |-> {}, visibleImages |-> {}, elementRefs |-> <<>>,
     observerRef |-> FALSE, observed |-> {},
     closure |-> [visibleImages |-> {}, loadedImages |-> {}],
     dirty |-> TRUE]

\* preloadImage of the hook, lines 334-344; every path returns
\* Promise.resolve()
HookPreloadImage(url, priority) ==
    /\ IF url = EmptyUrl \/ url = DataUrl
       THEN /\ CachesAndQueueIdle
            /\ UNCHANGED hook
       ELSE IF MapHas(imageCache, url)
       THEN /\ hook' = [hook EXCEPT !.loadedImages = @ \cup {url},
                                    !.dirty = TRUE]
            /\ CachesAndQueueIdle
       ELSE /\ Add(url, priority, 0)
            /\ UNCHANGED hook
    /\ promises' = [promises EXCEPT ![url] = "fulfilled"]
    /\ hookEvent' = [NoHookEvent EXCEPT !.op = "preloadImage", !.key = url]
    /\ OnlyHook

\* getBoundingClientRect of element e in the window
RectTop(e) == InnerHeight \div 2 + ElementOffset[e] - ElementHeight \div 2
RectBottom(e) == RectTop(e) + ElementHeight

\* calculatePriority of the hook, lines 371-398; Math.floor of the sum is
\* the sum of the whole parts and the floor of the distance boost
calculatePriority(e, baseIndex) ==
    LET distance == calculateViewportDistance(ElementOffset[e])
        base == IF 100 - baseIndex > 0 THEN 100 - baseIndex ELSE 0
        lost == (distance * 50 + InnerHeight - 1) \div InnerHeight
        distanceBoost == IF 50 - lost > 0 THEN 50 - lost ELSE 0
        turned ==
            IF scrollDirection = "down" /\ RectTop(e) > 0 THEN 20
            ELSE IF scrollDirection = "up" /\ RectBottom(e) < InnerHeight
                 THEN 20
            ELSE IF /\ scrollDirection = "idle"
                    /\ RectTop(e) >= 0
                    /\ RectBottom(e) <= InnerHeight
                 THEN 30
            ELSE 0
    IN  base + distanceBoost + turned

\* the effect of lines 403-460 after a render: its cleanup disconnects the
\* observer of the render before, a new observer is created whose callback
\* holds the state of this render
ObserverEffect ==
    /\ hook.dirty
    /\ hook' = [hook EXCEPT !.observerRef = TRUE,
                            !.observed = {},
                            !.closure = [visibleImages |-> hook.visibleImages,
                                         loadedImages |-> hook.loadedImages],
                            !.dirty = FALSE]
    /\ hookEvent' = [NoHookEvent EXCEPT !.op = "effect"]
    /\ CachesAndQueueIdle
    /\ UNCHANGED promises
    /\ OnlyHook

\* the callback with line 446 left out: a hidden element stays in the set
ObserverCallbackKeepsHidden(shown, ratio, hidden) ==
    /\ hook.observerRef
    /\ shown \cup hidden # {}
    /\ shown \cap hidden = {}
    /\ shown \cup hidden \subseteq hook.observed
    /\ Cardinality(shown) <= 1
    /\ LET found == {e \in shown : HasImage(images, e)}
           newVisibleImages == hook.closure.visibleImages \cup found
           newLoadedImages ==
               hook.closure.loadedImages \cup
                   {e \in found : IsLoaded(imageCache, FindImage(images, e))}
       IN  /\ hook' = [hook EXCEPT !.visibleImages = newVisibleImages,
                                   !.loadedImages = newLoadedImages,
                                   !.dirty = TRUE]
           /\ IF found = {}
              THEN CachesAndQueueIdle
              ELSE LET e == CHOOSE x \in found : TRUE
                   IN  Add(PreloadKey(FindImage(images, e)),
                           calculatePriority(e, IndexOf(images, e)) +
                               (ratio * 25) \div 100,
                           calculateViewportDistance(ElementOffset[e]))
    /\ hookEvent' = [op |-> "observer",
                     key |-> IF shown = {} THEN 0
                             ELSE CHOOSE x \in shown : TRUE,
                     hidden |-> hidden]
    /\ UNCHANGED promises
    /\ OnlyHook

\* the callback of the observer, lines 411-451, with entries for the
\* elements of hidden (not intersecting) and of shown (intersecting, at most
\* one element, with intersection ratio ratio); an entry whose image is not
\* in the list is skipped (line 419)
ObserverCallback(shown, ratio, hidden) ==
    /\ hook.observerRef
    /\ shown \cup hidden # {}
    /\ shown \cap hidden = {}
    /\ shown \cup hidden \subseteq hook.observed
    /\ Cardinality(shown) <= 1
    /\ LET found == {e \in shown : HasImage(images, e)}
           newVisibleImages ==
               (hook.closure.visibleImages \cup found) \
                   {e \in hidden : HasImage(images, e)}
           newLoadedImages ==
               hook.closure.loadedImages \cup
                   {e \in found : IsLoaded(imageCache, FindImage(images, e))}
       IN  /\ hook' = [hook EXCEPT !.visibleImages = newVisibleImages,
                                   !.loadedImages = newLoadedImages,
                                   !.dirty = TRUE]
           /\ IF found = {}
              THEN CachesAndQueueIdle
              ELSE LET e == CHOOSE x \in found : TRUE
                   IN  Add(PreloadKey(FindImage(images, e)),
                           calculatePriority(e, IndexOf(images, e)) +
                               (ratio * 25) \div 100,
                           calculateViewportDistance(ElementOffset[e]))
    /\ hookEvent' = [op |-> "observer",
                     key |-> IF shown = {} THEN 0
                             ELSE CHOOSE x \in shown : TRUE,
                     hidden |-> hidden]
    /\ UNCHANGED promises
    /\ OnlyHook

\* observeElement with a list of bindings in place of the Map of line 321
observeElementAppends(h, element, imageId) ==
    IF ~h.observerRef THEN h
    ELSE [h EXCEPT !.elementRefs =
                       Append(@, [key |-> imageId, value |-> element]),
                   !.observed = @ \cup {element}]

\* observeElement of the hook, lines 467-474, called as ImageGrid.tsx does,
\* with the element of the image
observeElement(h, element, imageId) ==
    IF ~h.observerRef THEN h
    ELSE [h EXCEPT !.elementRefs = MapSet(@, imageId, element),
                   !.observed = @ \cup {element}]

\* unobserveElement of the hook, lines 477-485
unobserveElement(h, imageId) ==
    IF ~h.observerRef THEN h
    ELSE IF MapHas(h.elementRefs, imageId)
         THEN [h EXCEPT !.observed = @ \ {MapGet(h.elementRefs, imageId)},
                        !.elementRefs = MapDelete(@, imageId)]
         ELSE h

\* the loop of lines 539-543 over the entries from the i-th on: r is what
\* the deletes before have done
RECURSIVE PruneFrom(_, _, _, _)
PruneFrom(r, entries, i, currentImageUrls) ==
    IF i > Len(entries) THEN r
    ELSE IF entries[i].key \in currentImageUrls
         THEN PruneFrom(r, entries, i + 1, currentImageUrls)
         ELSE LET d == LRUDelete(r.cache, entries[i].key)
              IN  PruneFrom([cache |-> d.cache, hit |-> FALSE,
                             left |-> r.left \cup d.left,
                             released |-> r.released \o d.released],
                            entries, i + 1, currentImageUrls)

\* the effect of lines 535-553 for the list of the render (videoCacheMetadata
\* is always empty, see clearCache)
prune(cache, list) ==
    PruneFrom([cache |-> cache, hit |-> FALSE, left |-> {},
               released |-> <<>>],
              cache, 1, { list[i].url : i \in DOMAIN list })

\* the component is rendered with another list: the effects that depend on
\* images run, lines 510-533 (the timer of the render before is cleared, a
\* new one is set unless the list is empty) and 535-553; the effect of lines
\* 403-464 runs as ObserverEffect
ImagesChanged(list) ==
    /\ images' = list
    /\ criticalTimer' = (list # <<>>)
    /\ ImageCacheCall("prune", None, prune(imageCache, list))
    /\ hook' = [hook EXCEPT !.dirty = TRUE]
    /\ hookEvent' = [NoHookEvent EXCEPT !.op = "images"]
    /\ NoVideoCall /\ NoQueueCall
    /\ UNCHANGED <<videoVars, queueVars, scrollVars, promises>>
    /\ UNCHANGED dispatched /\ NoServiceCall /\ WorkerIdle
    /\ BatcherIdle /\ StoresIdle

\* preloadDistance of the hook, line 315
preloadDistance == 6

\* add, lines 169-180, on the fields q of the queue
addTo(q, url, priority, distance) ==
    IF url \in q.loading \/ MapHas(imageCache, url) THEN q
    ELSE processQueue(
             [q EXCEPT !.queue = sortQueue(
                           Requeue(@, Item(url, priority, distance)),
                           scrollDirection)])

\* the forEach of lines 516-526 from the index-th image (counted from 0) on
RECURSIVE CriticalFrom(_, _, _, _)
CriticalFrom(q, list, index, criticalCount) ==
    IF index >= criticalCount THEN q
    ELSE CriticalFrom(addTo(q, PreloadKey(list[index + 1]),
                            80 + (criticalCount - index) * 5, 0),
                      list, index + 1, criticalCount)

\* the add calls of that loop that took effect, behind those of log
RECURSIVE CriticalLogFrom(_, _, _, _, _)
CriticalLogFrom(q, log, list, index, criticalCount) ==
    IF index >= criticalCount THEN log
    ELSE LET url == PreloadKey(list[index + 1])
             priority == 80 + (criticalCount - index) * 5
         IN  CriticalLogFrom(
                 addTo(q, url, priority, 0),
                 IF url \in q.loading \/ MapHas(imageCache, url) THEN log
                 ELSE Record(log, Item(url, priority, 0)),
                 list, index + 1, criticalCount)

\* preloadCriticalImages, lines 513-527, run by its timer
PreloadCriticalImages ==
    /\ criticalTimer
    /\ criticalTimer' = FALSE
    /\ LET criticalCount == IF preloadDistance < Len(images)
                            THEN preloadDistance ELSE Len(images)
           r == CriticalFrom(Fields, images, 0, criticalCount)
       IN  /\ Store(r)
           /\ queueEvent' = QueueEvent("critical", None, r)
           /\ enqueued' = StillPending(
                  CriticalLogFrom(Fields, enqueued, images, 0, criticalCount),
                  r)
    /\ hookEvent' = [NoHookEvent EXCEPT !.op = "critical"]
    /\ NoCacheCall /\ NoVideoCall
    /\ UNCHANGED <<videoVars, scrollVars, hook, promises, images>>
    /\ UNCHANGED dispatched /\ NoServiceCall /\ WorkerIdle
    /\ BatcherIdle /\ StoresIdle

ObserveElement(element, imageId) ==
    /\ hook' = observeElement(hook, element, imageId)
    /\ hookEvent' = [NoHookEvent EXCEPT !.op = "observe", !.key = imageId]
    /\ CachesAndQueueIdle
    /\ UNCHANGED promises
    /\ OnlyHook

UnobserveElement(imageId) ==
    /\ hook' = unobserveElement(hook, imageId)
    /\ hookEvent' = [NoHookEvent EXCEPT !.op = "unobserve", !.key = imageId]
    /\ CachesAndQueueIdle
    /\ UNCHANGED promises
    /\ OnlyHook

----------------------------------------------------------------------------
\* the caches and the queue as the module builds them
InitPipeline ==
    /\ imageCache = <<>>
    /\ cacheEvent = NoEvent
    /\ useOrder = <<>>
    /\ videoCache = <<>>
    /\ videoEvent = NoVideoEvent
    /\ videoFramesCache = <<>>
    /\ videoLoads = <<>>
    /\ queue = <<>>
    /\ loading = {}
    /\ sinceProcess = throttleDelay
    /\ timers = <<>>
    /\ decoding = [k \in Urls \cup ScenarioUrls \cup {EmptyUrl, DataUrl} |-> 0]
    /\ scrollDirection = "idle"
    /\ lastScrollY = 0
    /\ scrollTimeout = NoTimer
    /\ enqueued = <<>>
    /\ queueEvent = NoQueueEvent
    /\ dispatched = <<>>

\* the singleton of line 312 after its constructor, lines 44-46
Constructed(ok) ==
    LET d == initializeWorker(Fresh, ok)
    IN  /\ service = d.service
        /\ orphans = d.orphans
        /\ calls = d.calls
        /\ atWorker = d.atWorker
        /\ requestTimers = d.requestTimers
        /\ decoderEvent = NoDecoderEvent

\* the component that uses the hook after its first render with a list of
\* images, the timer of line 530 set by the effects of that render or not yet
HookMountedWith(list, timer) ==
    /\ hook = Mounted
    /\ promises = [url \in Urls \cup {PosterUrl, EmptyUrl, DataUrl} |-> "none"]
    /\ images = list
    /\ criticalTimer = timer
    /\ hookEvent = NoHookEvent
    /\ batcher = NewBatcher
    /\ batchLog = <<>>
    /\ batcherEvent = NoBatcherEvent
    /\ tags = [id \in ItemIds |-> None]
    /\ folders = [id \in ItemIds |-> None]
    /\ moves = {}
    /\ storeEvent = NoStoreEvent

\* the worker script as it is loaded, the window under the desktop shell or
\* in a browser
WorkerScope(supports, desktop) ==
    /\ supportsCreateImageBitmap = supports
    /\ electron = desktop
    /\ bitmaps = {}
    /\ workerEvent = NoWorkerEvent

HookMounted == HookMountedWith(<<Photo(1), Photo(2)>>, FALSE)

Init ==
    InitPipeline /\ Constructed(TRUE) /\ WorkerScope(TRUE, TRUE) /\ HookMounted

\* the step just made is one of the queue and the decoder service alone
Elsewhere == WorkerIdle /\ HookIdle

\* the step just made is outside the scenario specifications and calls
\* nothing of the decoder service
Untraced == UNCHANGED dispatched /\ NoServiceCall /\ Elsewhere

\* the two cache classes driven through their public methods
NextCache ==
    \/ \E k \in Keys : ImageCacheGet(k) /\ Untraced
    \/ \E k \in Keys : ImageCacheSet(k) /\ Untraced
    \/ \E k \in Keys : ImageCacheDelete(k) /\ Untraced
    \/ ImageCacheClear /\ Untraced
    \/ \E k \in Keys, v \in VideoValues : VideoCacheSet(k, v) /\ Untraced
    \/ \E k \in Keys : VideoCacheGet(k) /\ Untraced
    \/ \E k \in Keys : VideoCacheDelete(k) /\ Untraced
    \/ VideoCacheClear /\ Untraced

SpecCache == Init /\ [][NextCache]_vars

\* the preload queue with the image cache behind it
Next ==
    \/ \E url \in Urls, p \in Priorities, d \in Distances :
           Add(url, p, d) /\ Untraced
    \/ ProcessQueueTimer /\ Untraced
    \/ \E url \in Urls, o \in Outcomes : DecodeSettled(url, o) /\ Untraced
    \/ clearCache /\ Untraced
    \/ \E url \in Urls : getCachedImage(url) /\ Untraced
    \/ Tick /\ Untraced

Spec == Init /\ [][Next]_vars

\* the preload queue under scroll signals, the caches never cleared
NextScroll ==
    \/ \E url \in Urls, p \in Priorities, d \in Distances :
           Add(url, p, d) /\ Untraced
    \/ ProcessQueueTimer /\ Untraced
    \/ \E url \in Urls, o \in Outcomes : DecodeSettled(url, o) /\ Untraced
    \/ \E y \in ScrollYs : updateScrollDirection(y) /\ Untraced
    \/ ScrollIdle /\ Untraced
    \/ Tick /\ Untraced

SpecScroll == Init /\ [][NextScroll]_vars

\* The priority scenario: the resources of ScenarioUrls are handed to add one
\* after the other, each one once, with the priority of ScenarioPriority and
\* the same distance, on the queue as it is constructed.
Added(url) ==
    \/ \E i \in DOMAIN enqueued : enqueued[i].url = url
    \/ \E i \in DOMAIN dispatched : dispatched[i] = url

\* the log of the decodes processQueue starts
Traced ==
    dispatched' = IF queueEvent'.started
                  THEN Append(dispatched, queueEvent'.item.url)
                  ELSE dispatched

Scenario == Traced /\ NoServiceCall /\ Elsewhere

ScenarioAdd(url) ==
    /\ ~Added(url)
    /\ \A u \in ScenarioUrls : u < url => Added(u)
    /\ Add(url, ScenarioPriority[url], 0)
    /\ Scenario

NextPriority ==
    \/ \E url \in ScenarioUrls : ScenarioAdd(url)
    \/ ProcessQueueTimer /\ Scenario
    \/ \E url \in ScenarioUrls, o \in Outcomes :
           DecodeSettled(url, o) /\ Untraced
    \/ Tick /\ Untraced

SpecPriority == Init /\ [][NextPriority]_vars

\* the preload queue asked for three resources, each with its priority, and
\* the caches cleared at any time
NextDrain ==
    \/ \E url \in ScenarioUrls :
           Add(url, ScenarioPriority[url], 0) /\ Untraced
    \/ ProcessQueueTimer /\ Untraced
    \/ \E url \in ScenarioUrls, o \in Outcomes :
           DecodeSettled(url, o) /\ Untraced
    \/ clearCache /\ Untraced
    \/ Tick /\ Untraced

SpecDrain == Init /\ [][NextDrain]_vars

\* the preload queue with the decoder service behind it: whether the worker
\* can be constructed, what the worker answers, when timers run, whether the
\* conversion and the load of an image succeed is up to the environment
InitDecoder ==
    /\ InitPipeline
    /\ \E ok \in BOOLEAN : Constructed(ok)
    /\ WorkerScope(TRUE, TRUE)
    /\ HookMounted

NextDecoder ==
    \/ \E url \in Urls :
           Add(url, ScenarioPriority[url], 0)
               /\ UNCHANGED dispatched /\ Dispatching /\ Elsewhere
    \/ ProcessQueueTimer /\ UNCHANGED dispatched /\ Dispatching /\ Elsewhere
    \/ Continuation /\ Elsewhere
    \/ \E i \in DOMAIN calls, ok \in BOOLEAN :
           ConversionSettled(i, ok) /\ Elsewhere
    \/ \E i \in DOMAIN calls, ok \in BOOLEAN : ImageLoaded(i, ok) /\ Elsewhere
    \/ \E m \in atWorker, kind \in ResponseKinds :
           WorkerMessage(m, kind) /\ Elsewhere
    \/ \E k \in DOMAIN requestTimers : RequestTimeout(k) /\ Elsewhere
    \/ LongTick /\ Elsewhere

SpecDecoder == InitDecoder /\ [][NextDecoder]_vars

\* the preload queue, the decoder service and the worker script: what a
\* request's address leads to and what the scopes provide is up to the
\* environment, createImageBitmap exists in the worker or does not, the page
\* runs under the desktop shell or in a browser
InitWorker ==
    /\ InitPipeline
    /\ Constructed(TRUE)
    /\ \E supports \in BOOLEAN, desktop \in BOOLEAN :
           WorkerScope(supports, desktop)
    /\ HookMounted

NextWorker ==
    \/ \E url \in Urls :
           Add(url, ScenarioPriority[url], 0)
               /\ UNCHANGED dispatched /\ Dispatching /\ Elsewhere
    \/ ProcessQueueTimer /\ UNCHANGED dispatched /\ Dispatching /\ Elsewhere
    \/ \E ctx \in BOOLEAN : Rendered(ctx) /\ HookIdle
    \/ \E i \in DOMAIN calls, ok \in BOOLEAN :
           ConversionSettled(i, ok) /\ Elsewhere
    \/ \E i \in DOMAIN calls, ok \in BOOLEAN : ImageLoaded(i, ok) /\ Elsewhere
    \/ \E m \in atWorker, source \in Sources, hasImage \in BOOLEAN,
          ctx \in BOOLEAN, mainCtx \in BOOLEAN :
           Answered(m, source, hasImage, ctx, mainCtx) /\ HookIdle
    \/ \E k \in DOMAIN requestTimers : RequestTimeout(k) /\ Elsewhere
    \/ LongTick /\ Elsewhere

SpecWorker == InitWorker /\ [][NextWorker]_vars

\* the larger instance of the video cache under sets of new keys
NextEviction ==
    \E v \in SmallVideoValues : VideoCacheSetNew(v) /\ Untraced

SpecEviction == Init /\ [][NextEviction]_vars

\* videoUtils.ts: metadata extraction over the video metadata cache, frames
\* put in the frame cache, and the periodic sweep
NextVideo ==
    \/ \E src \in VideoSrcs \cup {None}, media \in Medias :
           getVideoDimensions(src, media) /\ Untraced
    \/ \E i \in 1..MaxVideoLoads, seekThrows \in BOOLEAN, ctx \in BOOLEAN :
           onloadedmetadata(i, seekThrows, ctx) /\ Untraced
    \/ \E i \in 1..MaxVideoLoads, ctx \in BOOLEAN :
           onseeked(i, ctx) /\ Untraced
    \/ \E i \in 1..MaxVideoLoads : onerror(i) /\ Untraced
    \/ \E src \in VideoSrcs : cleanupAndResolve(src) /\ Untraced
    \/ PerformMemoryCleanup /\ Untraced
    \/ \E src \in VideoSrcs : removeVideo(src) /\ Untraced

SpecVideo == Init /\ [][NextVideo]_vars

\* getVideoDimensions alone: calls for any source at any time and the events
\* of their video elements, the videos with one duration
ExtractionMedias == { m \in Medias : m.kind = "video" => m.duration = 10 }

NextExtraction ==
    \/ \E src \in VideoSrcs \cup {None}, media \in ExtractionMedias :
           getVideoDimensions(src, media) /\ Untraced
    \/ \E i \in 1..MaxVideoLoads, seekThrows \in BOOLEAN, ctx \in BOOLEAN :
           onloadedmetadata(i, seekThrows, ctx) /\ Untraced
    \/ \E i \in 1..MaxVideoLoads, ctx \in BOOLEAN :
           onseeked(i, ctx) /\ Untraced
    \/ \E i \in 1..MaxVideoLoads : onerror(i) /\ Untraced

SpecExtraction == Init /\ [][NextExtraction]_vars

\* the hook used by a component, over the queue with decodes that settle as
\* the environment has it
NextHook ==
    \/ \E url \in Urls, p \in Priorities : HookPreloadImage(url, p)
    \/ ProcessQueueTimer /\ Untraced
    \/ \E url \in Urls, o \in Outcomes : DecodeSettled(url, o) /\ Untraced
    \/ Tick /\ Untraced

SpecHook == Init /\ [][NextHook]_vars

\* the elements a grid of one image shows
GridElements == {1}

\* the element of the video of the lists of ImageLists
GalleryElements == {2}

\* the hook's visibility tracking for a grid of one image: the effect, the
\* registration calls of the grid and the callbacks of the observer, over
\* the queue
NextObserver ==
    \/ ObserverEffect
    \/ \E e \in GridElements : ObserveElement(e, e)
    \/ \E k \in Urls : UnobserveElement(k)
    \/ \E shown \in SUBSET GridElements, ratio \in Ratios,
          hidden \in SUBSET GridElements :
           ObserverCallback(shown, ratio, hidden)
    \/ ProcessQueueTimer /\ Untraced
    \/ \E url \in Urls, o \in Outcomes : DecodeSettled(url, o) /\ Untraced
    \/ Tick /\ Untraced

SpecObserver == Init /\ [][NextObserver]_vars

\* the batcher under queueOperation and clear calls at any time, its timer
\* and its frame running when the browser has it
PipelineAtRest ==
    /\ CachesAndQueueIdle
    /\ UNCHANGED dispatched /\ NoServiceCall /\ WorkerIdle
    /\ hookEvent' = NoHookEvent
    /\ UNCHANGED <<hook, promises, images, criticalTimer>>

NextBatcher ==
    \/ \E operation \in Operations, id \in ElementIds :
           QueueOperation(operation, id) /\ StoresIdle /\ PipelineAtRest
    \/ BatchTimeout /\ StoresIdle /\ PipelineAtRest
    \/ AnimationFrame /\ StoresIdle /\ PipelineAtRest
    \/ ClearBatcher /\ StoresIdle /\ PipelineAtRest

SpecBatcher == Init /\ [][NextBatcher]_vars

\* the two stores under moves of any item to any parent, the storage
\* settling each move when and how it does
NextStores ==
    \/ \E id \in ItemIds, newParentId \in ItemIds \cup {None} :
           moveTag(id, newParentId) /\ BatcherIdle /\ PipelineAtRest
    \/ \E id \in ItemIds, newParentId \in ItemIds \cup {None} :
           moveFolder(id, newParentId) /\ BatcherIdle /\ PipelineAtRest
    \/ \E m \in moves, success \in BOOLEAN :
           MoveSettled(m, success) /\ BatcherIdle /\ PipelineAtRest

SpecStores == Init /\ [][NextStores]_vars

\* the hook, first rendered with no image, under renders with other lists of
\* images, the image of a key of the list cached at any time (preloadImage
\* of the queue, line 238; the empty key is never decoded to an image), the
\* cache cleared at any time
NextGallery ==
    \/ \E list \in ImageLists : ImagesChanged(list)
    \/ \E i \in 1..2 :
           /\ i \in DOMAIN images
           /\ PreloadKey(images[i]) # EmptyUrl
           /\ ImageCacheSet(PreloadKey(images[i]))
           /\ Untraced
    \/ clearCache /\ Untraced

InitGallery ==
    /\ InitPipeline /\ Constructed(TRUE) /\ WorkerScope(TRUE, TRUE)
    /\ HookMountedWith(<<>>, FALSE)

SpecGallery == InitGallery /\ [][NextGallery]_vars

\* the three callers of preloadQueue.add for a list of one video without a
\* poster: preloadImage of the hook called with the empty and with a data:
\* url, the callback of the observer and the critical preload of the first
\* render
EntryUrls == {EmptyUrl, DataUrl}

InitEntry ==
    /\ InitPipeline /\ Constructed(TRUE) /\ WorkerScope(TRUE, TRUE)
    /\ HookMountedWith(<<BareClip>>, TRUE)

NextEntry ==
    \/ PreloadCriticalImages
    \/ \E url \in EntryUrls : HookPreloadImage(url, 10)
    \/ ObserverEffect
    \/ \E e \in GalleryElements : ObserveElement(e, e)
    \/ \E shown \in SUBSET GalleryElements, hidden \in SUBSET GalleryElements :
           ObserverCallback(shown, 100, hidden)
    \/ ProcessQueueTimer /\ Untraced
    \/ \E url \in EntryUrls, o \in Outcomes :
           DecodeSettled(url, o) /\ Untraced
    \/ Tick /\ Untraced

SpecEntry == InitEntry /\ [][NextEntry]_vars

\* the decoder service called directly, its worker failing and the service
\* terminated at any time
NextService ==
    \/ \E url \in Urls : DecodeCall(url) /\ Elsewhere
    \/ Delivered /\ Elsewhere
    \/ \E i \in DOMAIN calls, ok \in BOOLEAN :
           ConversionSettled(i, ok) /\ Elsewhere
    \/ \E i \in DOMAIN calls, ok \in BOOLEAN : ImageLoaded(i, ok) /\ Elsewhere
    \/ \E m \in atWorker, kind \in ResponseKinds :
           WorkerMessage(m, kind) /\ Elsewhere
    \/ \E k \in DOMAIN requestTimers : RequestTimeout(k) /\ Elsewhere
    \/ \E ok \in BOOLEAN : WorkerError(ok) /\ Elsewhere
    \/ Terminate /\ Elsewhere
    \/ LongTick /\ Elsewhere

SpecService == InitDecoder /\ [][NextService]_vars

\* the decoder service with a worker that does not fail, called directly and
\* terminated at any time: the service has no worker exactly when terminate
\* has been called
NextTerminated ==
    \/ \E url \in Urls : DecodeCall(url) /\ Elsewhere
    \/ Delivered /\ Elsewhere
    \/ \E i \in DOMAIN calls, ok \in BOOLEAN :
           ConversionSettled(i, ok) /\ Elsewhere
    \/ \E i \in DOMAIN calls, ok \in BOOLEAN : ImageLoaded(i, ok) /\ Elsewhere
    \/ \E m \in atWorker, kind \in ResponseKinds :
           WorkerMessage(m, kind) /\ Elsewhere
    \/ \E k \in DOMAIN requestTimers : RequestTimeout(k) /\ Elsewhere
    \/ Terminate /\ Elsewhere
    \/ LongTick /\ Elsewhere

SpecTerminated == Init /\ [][NextTerminated]_vars

----------------------------------------------------------------------------
(* Claims about the caches, checked under SpecCache                        *)

Count(seq, x) == Cardinality({ i \in DOMAIN seq : seq[i] = x })

LeftKeys(how) == { e.key : e \in { x \in cacheEvent.left : x.how = how } }

\* C1: after every call on the image LRU cache and on the video cache the
\* number of entries is at most the count ceiling the cache was built with.
C1_CountWithinCeiling ==
    /\ Len(imageCache) <= IMAGE_CACHE_MAX_SIZE
    /\ Len(videoCache) <= VIDEO_METADATA_CACHE_SIZE

\* The image cache is at its ceiling right after a set of a new key that
\* found it full, and the video cache holds as many entries as it may.
C1_Witness ==
    /\ cacheEvent.op = "set" /\ ~cacheEvent.hit
    /\ cacheEvent.size = IMAGE_CACHE_MAX_SIZE
    /\ Len(imageCache) = IMAGE_CACHE_MAX_SIZE
    /\ Len(videoCache) = VIDEO_METADATA_CACHE_SIZE

\* C2: after every set call on the memory-bounded video cache the estimated
\* cost is at most the memory ceiling (the claim as stated; the code breaks it).
C2_MemoryWithinCeiling ==
    videoEvent.op = "set" =>
        ~OverMemory(videoCache, VIDEO_METADATA_MEMORY_LIMIT_MB)

\* C3: a set of a new key into a full image cache evicts exactly the key whose
\* last set or successful get is oldest; a get hit or a set makes its key the
\* most recently used one, so the Map's order is the recency order.
C3_LRUEviction ==
    /\ MapKeySeq(imageCache) = useOrder
    /\ (cacheEvent.op = "set" /\ ~cacheEvent.hit
            /\ cacheEvent.size >= IMAGE_CACHE_MAX_SIZE)
         => cacheEvent.left = {[key |-> cacheEvent.lru, how |-> "evicted"]}
    /\ (cacheEvent.op = "set" \/ (cacheEvent.op = "get" /\ cacheEvent.hit))
         => /\ Len(imageCache) > 0
            /\ imageCache[Len(imageCache)].key = cacheEvent.key

\* set 1, set 2, refresh 1, set 3 on a cache of two: 2 is evicted, 1 is kept.
C3_Witness ==
    /\ cacheEvent.op = "set" /\ cacheEvent.key = 3
    /\ cacheEvent.left = {[key |-> 2, how |-> "evicted"]}
    /\ MapKeySeq(imageCache) = <<1, 3>>

\* C4: an entry that leaves the image cache by eviction, delete or clear is
\* released exactly once by that call, and nothing that stays is released.
C4_ReleaseOnLeave ==
    /\ \A k \in LeftKeys("evicted") \cup LeftKeys("deleted") \cup LeftKeys("cleared") :
           Count(cacheEvent.released, k) = 1
    /\ \A i \in DOMAIN cacheEvent.released :
           cacheEvent.released[i] \in { e.key : e \in cacheEvent.left }

\* A clear of a full cache released every element it held, each one once.
C4_Witness ==
    /\ cacheEvent.op = "clear"
    /\ Cardinality(LeftKeys("cleared")) = IMAGE_CACHE_MAX_SIZE
    /\ Len(cacheEvent.released) = IMAGE_CACHE_MAX_SIZE

\* C5: when set replaces the value stored under a key, the replaced handle is
\* released (the claim as stated; the code breaks it).
C5_ReleaseOnReplace ==
    \A k \in LeftKeys("replaced") : Count(cacheEvent.released, k) = 1

----------------------------------------------------------------------------
(* Claims about the preload queue, checked under Spec and SpecScroll       *)

\* C6: at no point are more than maxConcurrent decodes that the queue started
\* unsettled (the claim as stated; the code breaks it).
C6_ConcurrencyCeiling == Unsettled <= maxConcurrent

\* C7: for every url at most one decode that the queue started is unsettled
\* (the claim as stated; the code breaks it).
C7_OneDecodePerKey == \A url \in Urls : decoding[url] <= 1

\* C8: an add call for a url that is in the loading set or in the image cache
\* changes neither the queue, nor the loading set, nor the cache, nor the
\* pending processQueue timers.
C8_EnqueueNoOp ==
    [][(/\ queueEvent'.op = "add"
        /\ \/ queueEvent'.key \in loading
           \/ MapHas(imageCache, queueEvent'.key))
         => UNCHANGED <<queue, loading, imageCache, timers>>]_vars

\* An add call for the url that is loading, made while an item is pending and
\* a timer is set, has started nothing.
C8_Witness ==
    /\ queueEvent.op = "add" /\ queueEvent.key \in loading
    /\ ~queueEvent.started /\ queueEvent.item = NoItem
    /\ queue # <<>> /\ timers # <<>>

\* C9: the queue holds at most one item per url, and that item is the one of
\* the latest add call for the url that took effect.
C9_OnePendingItemPerKey ==
    /\ \A i, j \in DOMAIN queue : queue[i].url = queue[j].url => i = j
    /\ \A i \in DOMAIN queue : \E j \in DOMAIN enqueued : enqueued[j] = queue[i]
    /\ \A i, j \in DOMAIN enqueued :
           enqueued[i].url = enqueued[j].url => i = j

\* An add call replaced a pending item of other priority and distance, and the
\* new item is the only one of its url in the queue.
C9_Witness ==
    /\ queueEvent.op = "add"
    /\ queueEvent.replaced # NoItem
    /\ \E i \in DOMAIN queue :
           /\ queue[i].url = queueEvent.key
           /\ queue[i].priority # queueEvent.replaced.priority
           /\ queue[i].distance # queueEvent.replaced.distance
    /\ Len(queue) = 2

Position(log, url) == CHOOSE i \in DOMAIN log : log[i].url = url

\* C10: whenever processQueue takes an item off the queue, every item left
\* behind has a lower priority, or the same priority and a larger distance,
\* or the same priority and distance and a later latest add call.
C10_DispatchOrder ==
    queueEvent.item # NoItem =>
        \A i \in DOMAIN queue :
            LET taken == queueEvent.item
                left == queue[i]
            IN  \/ left.priority < taken.priority
                \/ /\ left.priority = taken.priority
                   /\ left.distance > taken.distance
                \/ /\ left.priority = taken.priority
                   /\ left.distance = taken.distance
                   /\ Position(enqueued, taken.url) < Position(enqueued, left.url)

\* A decode was started for an item of higher priority than the one left
\* behind, whose add call came first.
C10_Witness ==
    /\ queueEvent.started
    /\ \E i \in DOMAIN queue :
           /\ queue[i].priority < queueEvent.item.priority
           /\ Position(enqueued, queue[i].url)
                  < Position(enqueued, queueEvent.item.url)

\* C13: a step that takes an item off the queue starts at least throttleDelay
\* ms after the step that took the item before it: it finds the time since
\* lastProcessTime at throttleDelay or more and restarts it, and that time
\* grows only while time passes.
C13_DispatchesApart ==
    [][/\ queueEvent'.item # NoItem
            => sinceProcess = throttleDelay /\ sinceProcess' = 0
       /\ sinceProcess' > sinceProcess
            => sinceProcess' = sinceProcess + TickMs /\ queueEvent'.op = "none"
      ]_vars

\* A timer callback started a decode while other callbacks were still pending
\* and another item was waiting.
C13_Witness ==
    /\ queueEvent.op = "timer" /\ queueEvent.started
    /\ sinceProcess = 0
    /\ timers # <<>> /\ queue # <<>>

\* C14: when a decode the queue started settles, fulfilled or rejected, its
\* url leaves the loading set and one processQueue timer of cooldownDelay ms
\* is added; the pending items and the other loading urls stay as they are,
\* and a decode that did not deliver an image leaves the cache as it is.
C14_Completion ==
    [][queueEvent'.op \in Outcomes =>
          /\ loading' = loading \ {queueEvent'.key}
          /\ \E i \in DOMAIN timers' :
                 timers'[i] = cooldownDelay /\ RemoveAt(timers', i) = timers
          /\ queue' = queue
          /\ queueEvent'.op # "image" => imageCache' = imageCache
          /\ queueEvent'.op = "image" => MapHas(imageCache', queueEvent'.key)
      ]_vars

\* A decode was rejected while an item was pending: the cooldown timer is set
\* and the rejected url is neither loading, nor cached, nor pending.
C14_Witness ==
    /\ queueEvent.op = "error"
    /\ queue # <<>>
    /\ \E i \in DOMAIN timers : timers[i] = cooldownDelay
    /\ queueEvent.key \notin loading
    /\ ~MapHas(imageCache, queueEvent.key)
    /\ \A i \in DOMAIN queue : queue[i].url # queueEvent.key

\* C15: processing goes on until the queue is drained: while an item is
\* pending, a decode is unsettled or a processQueue timer is set, so that
\* processQueue will be called again without another add call (the claim as
\* stated; the code breaks it).
C15_NoStrandedItem ==
    queue # <<>> => (Unsettled > 0 \/ timers # <<>>)

----------------------------------------------------------------------------
(* Claims about scenarios of the preload queue                             *)

\* C11: with maxConcurrent 1, three resources handed to add one after the
\* other with priorities 10, 50, 30 and the same distance have their decodes
\* started in the order 50, 30, 10 (the claim as stated; the code breaks it).
C11_PriorityScenario ==
    \A i \in DOMAIN dispatched : dispatched[i] = <<2, 3, 1>>[i]

\* C12: while the scroll direction is 'down', of two pending items of equal
\* priority and equal viewport distance the one below the viewport has its
\* turn before the one above it (the claim as stated; the code breaks it).
C12_ScrollDownTieBreak ==
    (queueEvent.item # NoItem /\ scrollDirection = "down") =>
        \A i \in DOMAIN queue :
            LET taken == queueEvent.item
                left == queue[i]
            IN  ~ /\ taken.priority = left.priority
                  /\ taken.distance = calculateViewportDistance(ElementOffset[taken.url])
                  /\ left.distance = calculateViewportDistance(ElementOffset[left.url])
                  /\ ElementOffset[taken.url] < 0
                  /\ ElementOffset[left.url] > 0

----------------------------------------------------------------------------
(* Claims about the decoder service behind the queue, checked under        *)
(* SpecDecoder, and about the service called directly, under SpecService   *)

\* what a decode hands over that preloadImage can make an image of
Payloads == {"imageBitmap", "fallbackImageData", "fallbackImage"}

\* C16: the image cache changes only in the reactions of a decodeImage call
\* for that key that was fulfilled with a payload, and then it holds the key;
\* a failure response, a timeout and an answer that comes after the timeout
\* insert nothing, and the late answer settles no call.
C16_CacheOnlyBySuccessfulDecode ==
    [][ /\ imageCache' # imageCache =>
            /\ Microtasks
            /\ calls[NextReaction].by \in Payloads
            /\ calls' = RemoveAt(calls, NextReaction)
            /\ MapKeys(imageCache') =
                   MapKeys(imageCache) \cup {calls[NextReaction].url}
        /\ (Microtasks /\ calls[NextReaction].by \notin Payloads) =>
               imageCache' = imageCache
        /\ (decoderEvent'.op = "message" /\ ~decoderEvent'.known) =>
               /\ calls' = calls
               /\ service' = service
      ]_vars

\* The worker answers a request after its timeout has rejected it: the key of
\* that request is not cached, the key of a decode that succeeded is.
C16_Witness ==
    /\ decoderEvent.op = "message" /\ ~decoderEvent.known
    /\ MapKeys(imageCache) = {2}
    /\ calls = <<>>

\* the ids of the requests posted for calls that are not settled
PostedIds(cs) == { cs[i].id : i \in CallsOfStage(cs, "posted") }

\* the remaining delay of the timer of request id
TimerOf(ts, id) == { ts[k].left : k \in { j \in DOMAIN ts : ts[j].id = id } }

\* C17: the timer of a posted request is armed with the whole window of
\* decodeTimeout ms and runs down only as time passes, its callback runs when
\* nothing of the window is left; for a request that is still pending, that
\* is one no response came for, the callback takes the id out of the pending
\* table and rejects the call with the timeout error; the reactions of that
\* call take the key out of the in-flight set and cache nothing, so that add
\* of the key does not return early at its line 170 any more.
C17_TimeoutRejects ==
    [][ /\ \A id \in PostedIds(calls') \ PostedIds(calls) :
               TimerOf(requestTimers', id) = {decodeTimeout}
        /\ \A k \in DOMAIN requestTimers :
               \A left \in TimerOf(requestTimers', requestTimers[k].id) :
                   /\ left <= requestTimers[k].left
                   /\ left < requestTimers[k].left =>
                          /\ decoderEvent' = NoDecoderEvent
                          /\ queueEvent' = NoQueueEvent
                          /\ left + LongTickMs >= requestTimers[k].left
        /\ decoderEvent'.op = "timeout" =>
               /\ TimerOf(requestTimers, decoderEvent'.id) = {0}
               /\ TimerOf(requestTimers', decoderEvent'.id) = {}
               /\ ~MapHas(service'.pendingRequests, decoderEvent'.id)
               /\ decoderEvent'.known =>
                      \E i \in DOMAIN calls :
                          /\ calls[i].stage = "posted"
                          /\ calls[i].id = decoderEvent'.id
                          /\ calls'[i].stage = "settled"
                          /\ calls'[i].by = "timeout"
                          /\ calls'[i].outcome = "error"
        /\ (Microtasks /\ calls[NextReaction].by = "timeout") =>
               /\ calls' = RemoveAt(calls, NextReaction)
               /\ loading' = loading \ {calls[NextReaction].url}
               /\ imageCache' = imageCache
               /\ calls[NextReaction].url \notin loading'
               /\ ~MapHas(imageCache', calls[NextReaction].url)
      ]_vars

\* The key of a request that timed out, and that the worker has still not
\* answered, was handed to add again and a second request is posted for it.
C17_Witness ==
    /\ decoderEvent.op = "decodeImage" /\ decoderEvent.url = 1
    /\ \E m \in atWorker : m.id = 1 /\ m.address = "http"
    /\ TimerOf(requestTimers, 1) = {}
    /\ MapKeys(service.pendingRequests) = {2}
    /\ calls = <<[NewCall(1) EXCEPT !.stage = "posted", !.id = 2]>>
    /\ loading = {1}

\* C18: every decodeImage call whose promise is not settled has a timer
\* armed that will reject it, on whichever path the call is (the claim as
\* stated; the code arms the timer for a posted request only).
C18_EveryCallTimed ==
    \A i \in DOMAIN calls :
        calls[i].stage # "settled" =>
            TimerOf(requestTimers, calls[i].id) # {}

\* C19: right after handleWorkerError no request is pending, no call is
\* waiting for a worker's answer, and the service holds an initialized worker,
\* so that decodeImage posts again (the claim as stated; the code leaves the
\* service without a worker when the new Worker cannot be constructed).
C19_WorkerErrorRecovers ==
    decoderEvent.op = "workerError" =>
        /\ service.pendingRequests = <<>>
        /\ CallsOfStage(calls, "posted") = {}
        /\ service.worker = Worker
        /\ service.workerInitialized

\* the stages of decodeImageMainThread, and what its promise settles by
MainStages == {"mainConverting", "mainLoading"}
MainSettlements == {"fallbackImage", "loadError", "cannotLoad"}

\* the service changes nothing of its request tracking in the step
NothingTracked ==
    /\ service' = service
    /\ atWorker' = atWorker
    /\ requestTimers' = requestTimers

\* C20: a decodeImage call made while the service holds no initialized worker
\* goes on in decodeImageMainThread, and so does a call whose conversion of
\* its local-file:// address for the worker fails; neither registers a
\* request, posts a message or arms a timer; a call in decodeImageMainThread
\* settles by what becomes of its own conversion and load only, never by the
\* missing worker, a worker error or terminate.
C20_MainThreadFallback ==
    [][ /\ (/\ decoderEvent'.op = "decodeImage"
            /\ ~(service.worker = Worker /\ service.workerInitialized)) =>
               /\ calls' = Append(calls,
                      [NewCall(decoderEvent'.url) EXCEPT
                          !.stage = IF NeedsConversion(decoderEvent'.url)
                                    THEN "mainConverting" ELSE "mainLoading"])
               /\ NothingTracked
        /\ (decoderEvent'.op = "conversion" /\ ~decoderEvent'.known) =>
               /\ \E i \in DOMAIN calls :
                      \/ /\ calls[i].stage = "converting"
                         /\ calls' = [calls EXCEPT
                                          ![i].stage = "mainConverting"]
                      \/ /\ calls[i].stage = "mainConverting"
                         /\ calls' = [calls EXCEPT
                                          ![i].stage = "settled",
                                          ![i].outcome = "error",
                                          ![i].by = "cannotLoad"]
               /\ NothingTracked
        /\ Len(calls') = Len(calls) =>
               \A i \in DOMAIN calls :
                   calls[i].stage \in MainStages =>
                       /\ calls'[i].id = 0
                       /\ calls'[i].stage \in MainStages \cup {"settled"}
                       /\ calls'[i].stage = "settled" =>
                              calls'[i].by \in MainSettlements
      ]_vars

\* The conversion of a local-file:// address for the worker failed, the call
\* went on in the main thread and is fulfilled with the image loaded there,
\* while the service has held its worker all along and numbered no request.
C20_Witness ==
    /\ decoderEvent.op = "load" /\ decoderEvent.known
    /\ decoderEvent.url = 2
    /\ service.worker = Worker /\ ~orphans
    /\ service.requestIdCounter = 0
    /\ calls = <<[NewCall(2) EXCEPT !.stage = "settled",
                                    !.outcome = "image",
                                    !.by = "fallbackImage"]>>

----------------------------------------------------------------------------
(* Claims about the worker script and the bitmaps, checked under SpecWorker *)

\* C21: when the worker has no createImageBitmap, a pending request whose
\* address leads to an image is answered with the image data of the canvas
\* fallback, in the size of the source image, and its call is fulfilled with
\* a payload (the claim as stated; the fallback of the script cannot run in
\* the scope of a worker).
C21_FallbackResolves ==
    (/\ workerEvent.op = "answer"
     /\ ~supportsCreateImageBitmap
     /\ workerEvent.source.kind = "image"
     /\ decoderEvent.known) =>
        /\ workerEvent.result =
               Response("fallbackImageData", workerEvent.source.size)
        /\ \E i \in DOMAIN calls :
               /\ calls[i].id = workerEvent.id
               /\ calls[i].stage = "settled"
               /\ calls[i].outcome = "image"

\* C22: no request that is at a worker carries a local-file:// address (the
\* claim as stated; without window.electron the code posts the address as it
\* is).
C22_NoLocalFileAtWorker ==
    \A m \in atWorker : m.address # "local-file"

\* C23: a bitmap the worker transferred is never closed twice, and once no
\* call is left that waits for the reactions of its request it has been
\* closed once (the claim as stated; the code closes no bitmap of an answer
\* it does not expect any more, and none when it gets no canvas context).
C23_BitmapsClosedOnce ==
    \A b \in bitmaps :
        /\ b.closes <= 1
        /\ (\A i \in DOMAIN calls : calls[i].id # b.id) => b.closes = 1

----------------------------------------------------------------------------
(* Claims about the hook, checked under SpecHook                            *)

\* C24: when a decode the queue started fails, the promise the hook's
\* preloadImage returned for that key is rejected (the claim as stated; the
\* promise is fulfilled before the decode starts).
C24_FailureReachesCaller ==
    (queueEvent.op = "error" /\ promises[queueEvent.key] # "none") =>
        promises[queueEvent.key] = "rejected"

----------------------------------------------------------------------------
(* Claims about the visibility tracking, checked under SpecObserver         *)

\* C25: a callback of the observer whose entries are all not intersecting
\* drops the ids of those elements from the visible set and leaves the
\* pending queue, the in-flight set, the running decodes and the cache
\* unchanged; a decode that settles with an image is cached whether its
\* element is visible or not.
C25_HiddenOnlyLeavesVisibleSet ==
    [][ /\ (hookEvent'.op = "observer" /\ hookEvent'.key = 0) =>
            /\ hook'.visibleImages \cap hookEvent'.hidden = {}
            /\ UNCHANGED <<queue, loading, decoding, imageCache>>
        /\ queueEvent'.op = "image" =>
               /\ MapHas(imageCache', queueEvent'.key)
               /\ queueEvent'.key \notin loading'
      ]_vars

\* an element is reported hidden while the decode of its image is in flight
C25_Witness ==
    /\ hookEvent.op = "observer"
    /\ hookEvent.hidden = {1}
    /\ 1 \in hook.closure.visibleImages
    /\ 1 \notin hook.visibleImages
    /\ 1 \in loading
    /\ decoding[1] > 0

\* C26: from every state of the hook, a second observeElement with the same
\* element and id, and a second unobserveElement with the same id, leave the
\* hook (its binding table and the targets of its observer included) as the
\* first call left it, and unobserveElement of an id without a binding
\* leaves the hook as it was.
C26_RegistrationIdempotent ==
    /\ \A e \in Elements, k \in Urls :
           LET once == observeElement(hook, e, k)
           IN  observeElement(once, e, k) = once
    /\ \A k \in Urls :
           LET once == unobserveElement(hook, k)
           IN  unobserveElement(once, k) = once
    /\ \A k \in Urls :
           ~MapHas(hook.elementRefs, k) => unobserveElement(hook, k) = hook

\* observeElement has registered an element with the observer, and another
\* id has no binding
C26_Witness ==
    /\ hookEvent.op = "observe"
    /\ hook.observerRef
    /\ MapHas(hook.elementRefs, hookEvent.key)
    /\ MapGet(hook.elementRefs, hookEvent.key) \in hook.observed
    /\ \E k \in Urls : ~MapHas(hook.elementRefs, k)

----------------------------------------------------------------------------
(* Claims about the scroll direction, checked under SpecScroll              *)

\* C27: a scroll signal with a greater offset than the one before sets the
\* direction to down, one with a smaller offset to up, one with an equal
\* offset leaves it; every signal restarts the idle timer at 150 ms; the
\* timer only runs down with time, and the direction becomes idle only in
\* the step of the timer whose 150 ms have run out.
C27_ScrollDirection ==
    [][ /\ lastScrollY' > lastScrollY =>
               scrollDirection' = "down" /\ scrollTimeout' = scrollIdleDelay
        /\ lastScrollY' < lastScrollY =>
               scrollDirection' = "up" /\ scrollTimeout' = scrollIdleDelay
        /\ (lastScrollY' = lastScrollY /\ scrollTimeout' > scrollTimeout) =>
               /\ scrollDirection' = scrollDirection
               /\ scrollTimeout' = scrollIdleDelay
        /\ (scrollDirection' = "idle" /\ scrollDirection # "idle") =>
               scrollTimeout = 0 /\ scrollTimeout' = NoTimer
        /\ scrollTimeout' < scrollTimeout =>
               \/ scrollTimeout > 0 /\ scrollTimeout' = scrollTimeout - TickMs
               \/ /\ scrollTimeout = 0
                  /\ scrollTimeout' = NoTimer
                  /\ scrollDirection' = "idle"
      ]_vars

\* the direction is idle again after a scroll down and a quiet period
C27_Witness ==
    /\ scrollDirection = "idle"
    /\ lastScrollY = 1
    /\ scrollTimeout = NoTimer

----------------------------------------------------------------------------
(* Claims about videoUtils.ts, checked under SpecVideo                      *)

\* C28: a getVideoDimensions call with the empty source, and a call whose
\* resource is a video of duration 0, is resolved with width 640, height 360
\* and duration 0 (the claim as stated; the empty source is rejected at line
\* 141).
C28_DefaultsForEmptyOrZeroDuration ==
    [][ (\/ /\ videoEvent'.op = "getVideoDimensions"
            /\ videoEvent'.key = None
         \/ /\ videoEvent'.settled # "none"
            /\ videoEvent'.media.kind = "video"
            /\ videoEvent'.media.duration = 0) =>
            /\ videoEvent'.settled = "resolved"
            /\ videoEvent'.value.width = 640
            /\ videoEvent'.value.height = 360
            /\ videoEvent'.value.duration = 0
      ]_vars

\* C29: a sweep that finds the aggregate cost of the two caches above the
\* global ceiling ends without an exception and leaves the aggregate cost
\* lower than it found it; a sweep that finds it at or below the ceiling
\* changes neither cache (the claim as stated; the sweep raises a TypeError
\* at line 417 when it has to evict metadata).
C29_SweepLowersCost ==
    [][ videoEvent'.op = "performMemoryCleanup" =>
            IF totalMemoryUsage(videoCache, videoFramesCache) >
                   maxTotalMemoryMB * BytesPerMB
            THEN /\ ~videoEvent'.raised
                 /\ totalMemoryUsage(videoCache', videoFramesCache') <
                        totalMemoryUsage(videoCache, videoFramesCache)
            ELSE UNCHANGED <<videoCache, videoFramesCache>>
      ]_vars

----------------------------------------------------------------------------
(* Claims about the memory pass of the video cache, checked under          *)
(* SpecEviction                                                            *)

----------------------------------------------------------------------------
(* Claims about the correlation of requests and responses, checked under   *)
(* SpecService                                                             *)

\* C31: the requests that wait for the worker have distinct ids that are in
\* the pending table; such a request is settled only by the response or the
\* timer that carries its id, by a worker error or by terminate, and its id
\* leaves the table in that step; a settled call is not settled again; a
\* response whose id is not pending changes neither the calls nor the
\* service.
C31_SettledOnceByOwnEvent ==
    [][ /\ \A i, j \in DOMAIN calls :
               (calls[i].stage = "posted" /\ calls[j].stage = "posted"
                    /\ i # j) => calls[i].id # calls[j].id
        /\ \A i \in DOMAIN calls :
               calls[i].stage = "posted" =>
                   MapHas(service.pendingRequests, calls[i].id)
        /\ decoderEvent'.op # "settled" =>
               \A i \in DOMAIN calls :
                   /\ i \in DOMAIN calls'
                   /\ calls[i].stage = "settled" => calls'[i] = calls[i]
                   /\ (calls[i].stage = "posted" /\ calls'[i] # calls[i]) =>
                          /\ calls'[i] = [calls[i] EXCEPT
                                             !.stage = "settled",
                                             !.outcome = calls'[i].outcome,
                                             !.by = calls'[i].by]
                          /\ ~MapHas(service'.pendingRequests, calls[i].id)
                          /\ \/ /\ decoderEvent'.op = "message"
                                /\ decoderEvent'.id = calls[i].id
                                /\ calls'[i].by \in ResponseKinds
                             \/ /\ decoderEvent'.op = "timeout"
                                /\ decoderEvent'.id = calls[i].id
                                /\ calls'[i].by = "timeout"
                             \/ /\ decoderEvent'.op = "workerError"
                                /\ calls'[i].by = "workerError"
                             \/ /\ decoderEvent'.op = "terminate"
                                /\ calls'[i].by = "terminate"
        /\ (decoderEvent'.op = "message" /\ ~decoderEvent'.known) =>
               calls' = calls /\ service' = service
      ]_vars

\* a response whose id is no longer pending has arrived while another
\* request waits for its own
C31_Witness ==
    /\ decoderEvent.op = "message"
    /\ ~decoderEvent.known
    /\ \E i \in DOMAIN calls :
           /\ calls[i].stage = "posted"
           /\ calls[i].id # decoderEvent.id
           /\ MapHas(service.pendingRequests, calls[i].id)

----------------------------------------------------------------------------
(* Claims about what getVideoDimensions caches, checked under              *)
(* SpecExtraction                                                          *)

\* the steps of getVideoDimensions and of the handlers of its video element
ExtractionOps == {"getVideoDimensions", "onloadedmetadata", "onseeked",
                  "onerror"}

\* C32: a step of getVideoDimensions puts a record in the metadata cache, or
\* replaces one, only for the source of a call whose video has loaded its
\* metadata and whose frame has been captured: the step resolves the call
\* with that record, which carries the poster, and the cache holds it under
\* the source when the call is resolved.  A step that rejects a call, or
\* resolves it with the defaults of an unsupported source, leaves the cache
\* as it is.  A call for a cached source is resolved with the cached record
\* and creates no video element.
C32_CachedOnlyWithPoster ==
    [][ videoEvent'.op \in ExtractionOps =>
            /\ \A k \in MapKeys(videoCache') :
                   (~MapHas(videoCache, k) \/
                        MapGet(videoCache', k) # MapGet(videoCache, k)) =>
                       /\ videoEvent'.op \in {"onloadedmetadata", "onseeked"}
                       /\ videoEvent'.key = k
                       /\ videoEvent'.settled = "resolved"
                       /\ videoEvent'.media.kind = "video"
                       /\ videoEvent'.value.posterData
                       /\ videoEvent'.value = MapGet(videoCache', k)
            /\ (/\ videoEvent'.settled = "resolved"
                /\ videoEvent'.op \in {"onloadedmetadata", "onseeked"}) =>
                   /\ MapHas(videoCache', videoEvent'.key)
                   /\ MapGet(videoCache', videoEvent'.key) = videoEvent'.value
            /\ (\/ videoEvent'.settled = "rejected"
                \/ videoEvent'.op = "onerror") =>
                   videoCache' = videoCache
            /\ (/\ videoEvent'.op = "getVideoDimensions"
                /\ videoEvent'.key # None
                /\ MapHas(videoCache, videoEvent'.key)) =>
                   /\ videoEvent'.settled = "resolved"
                   /\ videoEvent'.value = MapGet(videoCache, videoEvent'.key)
                   /\ videoLoads' = videoLoads
                   /\ MapKeys(videoCache') = MapKeys(videoCache)
                   /\ \A k \in MapKeys(videoCache) :
                          MapGet(videoCache', k) = MapGet(videoCache, k)
      ]_vars

\* a call has been resolved with the record and poster that an earlier call
\* cached, while another call for the same source still waits for its video
C32_Witness ==
    /\ videoEvent.op = "getVideoDimensions"
    /\ videoEvent.settled = "resolved"
    /\ videoEvent.value.posterData
    /\ \E i \in DOMAIN videoLoads : videoLoads[i].src = videoEvent.key

\* C33: removeVideo ends without an exception, leaves no metadata entry and
\* no frame entry of its source, and leaves the entries of the other
\* sources in both caches as they are (the claim as stated; the call raises
\* a TypeError at line 442 and removes no frame entry).
C33_RemoveVideoTotal ==
    [][ videoEvent'.op = "removeVideo" =>
            /\ ~videoEvent'.raised
            /\ videoCache' = MapDelete(videoCache, videoEvent'.key)
            /\ videoFramesCache' =
                   MapDelete(videoFramesCache, videoEvent'.key)
      ]_vars

----------------------------------------------------------------------------
(* Claims about the DOM batcher, checked under SpecBatcher                  *)

\* the last operation queued for id since the last batch
LastQueued(log, id) ==
    log[CHOOSE i \in DOMAIN log :
            /\ log[i].id = id
            /\ \A j \in DOMAIN log : log[j].id = id => j <= i]

\* C34: a batch styles each element once, for the elements queued since the
\* last batch and with the operation queued last for each, every hide before
\* every show; it leaves no pending operation and no batch scheduled.  A
\* queueOperation that finds no batch scheduled schedules one, so that
\* pending operations always have a timer or a frame ahead of them.
C34_BatchAppliesLastHideFirst ==
    [][ /\ batcherEvent'.op = "executeBatch" =>
            LET applied == batcherEvent'.applied
            IN  /\ \A i, j \in DOMAIN applied :
                       applied[i].id = applied[j].id => i = j
                /\ { applied[i].id : i \in DOMAIN applied } =
                       { batchLog[i].id : i \in DOMAIN batchLog }
                /\ \A i \in DOMAIN applied :
                       applied[i] = LastQueued(batchLog, applied[i].id)
                /\ \A i, j \in DOMAIN applied :
                       (applied[i].operation = "hide" /\
                            applied[j].operation = "show") => i < j
                /\ batcher'.pendingOperations = <<>>
                /\ batcher'.batchTimeout = "null"
        /\ (batcherEvent'.op = "queueOperation" /\
                batcher.batchTimeout = "null") =>
               batcher'.batchTimeout = "pending"
        /\ batcher'.pendingOperations # <<>> =>
               \/ batcher'.batchTimeout = "pending"
               \/ batcher'.animationFrame = "requested"
      ]_vars

\* a batch has styled two elements, one hidden and one shown, after three
\* operations were queued
C34_Witness ==
    /\ batcherEvent.op = "executeBatch"
    /\ batcherEvent.queued = 3
    /\ Len(batcherEvent.applied) = 2
    /\ batcherEvent.applied[1].operation = "hide"
    /\ batcherEvent.applied[2].operation = "show"

----------------------------------------------------------------------------
(* Claims about the tag and folder hierarchies, checked under SpecStores    *)

\* C35: in every state the walk over the parent links ends from every tag
\* and from every folder, that is, neither hierarchy has a cycle (the claim
\* as stated; two moves that both pass the test before either is stored
\* close a cycle).
C35_HierarchyAcyclic ==
    \A id \in ItemIds :
        /\ getTagPath(tags, id) # Diverges
        /\ getFolderPath(folders, id) # Diverges

----------------------------------------------------------------------------
(* Claims about the bookkeeping of the preload queue, checked under Spec    *)

\* the keys of the pending queue
QueuedUrls == { queue[i].url : i \in DOMAIN queue }

\* C36: in every state no key is both queued and loading, and no queued key
\* is in the image cache (the claim as stated; the decode that clearCache
\* has forgotten caches a key that was queued again).
C36_QueueLoadingCacheDisjoint ==
    /\ QueuedUrls \cap loading = {}
    /\ \A url \in QueuedUrls : ~MapHas(imageCache, url)

\* the image cache, the pending queue and the loading set are empty
AllCleared == imageCache = <<>> /\ queue = <<>> /\ loading = {}

\* C37: clearCache leaves the image cache, the pending queue and the loading
\* set empty, and no step other than an add call ends that (the claim as
\* stated; the decode that was unsettled at clearCache caches its image).
C37_ClearedStaysEmpty ==
    [][ (\/ queueEvent'.op = "clear"
         \/ AllCleared /\ queueEvent'.op # "add") => AllCleared'
      ]_vars

----------------------------------------------------------------------------
(* Claims about the terminated service, checked under SpecTerminated        *)

\* C38: terminate leaves the pending table empty and no call waiting for a
\* worker; from then on the table stays empty, nothing is posted, and a call
\* whose conversion settles goes on in decodeImageMainThread (the claim as
\* stated; a call that awaited its conversion registers a request and fails
\* at postMessage).
C38_TerminatedServesMainThread ==
    [][ /\ decoderEvent'.op = "terminate" =>
            /\ service'.pendingRequests = <<>>
            /\ \A i \in DOMAIN calls' : calls'[i].stage # "posted"
        /\ service.worker = NoWorker =>
            /\ service'.pendingRequests = <<>>
            /\ atWorker' \subseteq atWorker
            /\ \A i \in DOMAIN calls :
                   (/\ decoderEvent'.op = "conversion"
                    /\ calls[i].stage = "converting"
                    /\ calls'[i] # calls[i]) =>
                       calls'[i].stage \in {"mainConverting", "mainLoading"}
      ]_vars

----------------------------------------------------------------------------
(* Claims about the list of images, checked under SpecGallery and SpecEntry *)

\* the keys the images of a list are cached under: the url of an image, the
\* posterUrl of a video that has one
Referred(list) ==
    { list[i].url : i \in { j \in DOMAIN list : list[j].type = "image" } }
        \cup { list[i].posterUrl :
                   i \in { j \in DOMAIN list : list[j].type = "video" /\
                                               list[j].posterUrl # None } }

\* C39: when the component is rendered with another list, the cached keys
\* that stay are those the new list refers to, by the url of an image or by
\* the posterUrl of a video (the claim as stated; the effect deletes the
\* poster of a video that is still in the list).
C39_PruneKeepsReferred ==
    [][ hookEvent'.op = "images" =>
            \A k \in MapKeys(imageCache) :
                MapHas(imageCache', k) <=> k \in Referred(images')
      ]_vars

\* C40: the empty key and the data: url are never pending, never loading and
\* never being decoded (the claim as stated; the critical preload and the
\* observer callback add the empty key for a video without a poster).
C40_NoEmptyOrDataKey ==
    /\ \A i \in DOMAIN queue : queue[i].url \notin {EmptyUrl, DataUrl}
    /\ loading \cap {EmptyUrl, DataUrl} = {}
    /\ decoding[EmptyUrl] = 0 /\ decoding[DataUrl] = 0

====
